---- MODULE Spec2Model ----
(***************************************************************************)
(* A model of xenforo-dl's traversal-and-download orchestrator             *)
(* (src/src/lib/XenForoDownloader.ts) and of its Fetcher                   *)
(* (src/unnamed/part_004, imported as ./utils/Fetcher.js).                 *)
(*                                                                         *)
(* The module holds several specifications over one set of variables; each *)
(* drives one part of the program and leaves the variables of the other    *)
(* parts at their initial values:                                          *)
(*   SpecThread  #downloadThread over the pages of one thread, with the    *)
(*               transcript files and the resume marker on disk, process   *)
(*               crashes and re-runs.                                      *)
(*   SpecThreadFaults  the same handler where a write of the resume marker *)
(*               may fail and the message the marker names may be deleted  *)
(*               on the server between two runs.                           *)
(*   SpecFetchLive  SpecFetch against a server that may redirect without   *)
(*               end, with fairness: the claim about an attempt's end.     *)
(*   SpecFetch   one Fetcher.fetchHTML call: its attempts, the redirect    *)
(*               hops of each attempt, the retries and the cancel signal.  *)
(*   SpecForum   start(), #process and #downloadForum over a site of       *)
(*               forums, subforums and threads, every page fetched through *)
(*               pageFetchLimiter; a listed thread has one page and no     *)
(*               messages here (SpecThread models the thread handler).     *)
(*   SpecAttach  the message loop of #downloadThread over one thread page  *)
(*               whose messages link attachments: the fan-out through      *)
(*               attachmentDownloadLimiter, Fetcher.downloadAttachment     *)
(*               with the files it writes, the cancel signal and start().  *)
(*   SpecForumLive  SpecForum on the sites without a link back to an       *)
(*               ancestor, with the handlers and the network making        *)
(*               progress.                                                 *)
(*   SpecClassify  URLHelper.getTargetTypeByURL applied to a URL.            *)
(*   SpecPath    #getThreadSavePath applied to a thread page and a         *)
(*               directory structure configuration.                        *)
(*   SpecLookup  the filename lookups #downloadThread makes for the        *)
(*               attachments of a page that came without a filename, with  *)
(*               Fetcher.fetchFilenameByHeaders and the cancel signal.     *)
(*   SpecMessage MessageTemplate.format applied to a message.              *)
(***************************************************************************)
EXTENDS Integers, Sequences, FiniteSets, TLC

(***************************************************************************)
(* Bounds of the model.                                                    *)
(***************************************************************************)
\* Pages of the modelled thread.
MaxPages == 2
\* Messages on one thread page.
MaxPageLen == 2
\* Process crashes in one behaviour of SpecThread.
MaxCrashes == 1
\* Largest config.request.maxRetries tried.
MaxRetriesBound == 2
\* Hosts a redirect may point to; host 1 is the host of the original request.
NumHosts == 2
\* Redirect hops followed in one attempt before the server answers finally.
MaxHops == 3
\* Forums of the site in SpecForum; forum 1 is the target.
NumForums == 2
\* Listing pages of a forum.
MaxForumPages == 2
\* Threads listed on one forum page.
MaxThreadsPerPage == 2
\* Nested #downloadForum calls the model follows before it stops descending.
MaxDepth == 3
\* config.request.maxRetries in SpecForum.
ForumMaxRetries == 1
\* Page requests that can exist at once in the model.
MaxPageRequests == 2
\* Messages of the thread page in SpecAttach.
NumMessages == 2
\* Attachments linked by one message; also the largest config.request.maxConcurrent tried.
MaxAttachments == 2
\* config.request.maxRetries in SpecAttach.
AttachMaxRetries == 1
\* Dispatches of the one thread url in one run of SpecThread.
MaxDispatches == 2
\* Path segments of a modelled URL.
MaxUrlLen == 3
\* Breadcrumbs of a modelled thread page.
MaxCrumbs == 3
\* Writes of the marker file that fail.
MaxWriteFailures == 1
\* Attachments of the thread page whose filenames are looked up.
MaxLookups == 2
\* config.request.maxRetries of the filename lookups.
LookupMaxRetries == 1
\* config.request.maxConcurrent of the run whose filename lookups SpecLookup follows.
LookupMaxConcurrent == 1
\* Characters of the longest author name tried.
MaxAuthorLen == 30

VARIABLES
  stats,      \* DownloadStats of the current start() call
  tLayout,    \* the thread on the server: number of messages of each page
  tContinue,  \* config.continue of the current run
  tFiles,     \* transcript file of each page: <<>> absent, else header 0 then message ids
  tMarker,    \* the .dl-status-<threadID> file: DownloadStatus, or NoStatus when absent
  tPc,        \* position of #downloadThread
  tUrl,       \* page the current #downloadThread call was given
  tCtx,       \* DownloadThreadContext of the current call
  tMsgs,      \* threadPage.messages still to be processed
  tCrashes,   \* crashes so far
  tCut,       \* N when the output has been cut back to the first N messages, else 0
  tDispatches, \* times #process was given the thread's url in the current run
  tWrites,    \* the messageIDs #saveDownloadStatus was called with in the current run, in order
  tGone,      \* the message that was deleted on the server, 0 when none was
  tChecks,    \* calls of #checkPreviousDownload since #process was given the thread's url
  tWriteFailures, \* writes of the marker file that have failed so far
  tGood,      \* the status record last written to the marker file without failure
  qMaxRetries,  \* args.maxRetries of the fetchHTML call
  qHasCookie,   \* whether the Fetcher was given a cookie
  qCancelled,   \* whether the AbortSignal has been raised
  qPc,          \* position of fetchHTML
  qRt,          \* rt of the current fetchHTML invocation
  qUrlHost,     \* host of the url the current #fetchWithRedirect invocation was given
  qUseCookie,   \* useCookie of the current #fetchWithRedirect invocation
  qChain,       \* requests of the current attempt, in order: [host, cookie]
  qAttempts,    \* attempts started by this call
  qFailures,    \* attempts of this call that ended in a non-fatal error
  qError,       \* the error the call threw, NoError before
  qMethod,      \* "GET": the call is fetchHTML; "HEAD": it is fetchFilenameByHeaders
  qStatus,      \* the response #fetchWithRedirect handed back: "none", "ok" (2xx) or "notOK"
  fSubs,        \* the site: subforums each forum lists (on its last page)
  fPages,       \* the site: listing pages of every forum
  fThreads,     \* the site: threads listed on every forum page
  fTarget,      \* config.targetURL
  fStack,       \* the pending #downloadForum / #downloadThread calls, innermost last
  fPc,          \* position of start()
  fReqs,        \* page fetches handed to pageFetchLimiter
  fCancelled,   \* whether the AbortSignal has been raised
  aDests,       \* destPath of each attachment of a message, in the order the parser lists them
  aExisting,    \* the destPaths that exist before a message is processed
  aOverwrite,   \* config.overwrite (tried where a file exists)
  aMaxConcurrent, \* config.request.maxConcurrent
  aPc,          \* position of start() and of the message loop
  aMsg,         \* the message being processed
  aJobs,        \* the #downloadMessageAttachment calls of the message
  aFs,          \* the attachment directory: the files of the message's attachments
  aTranscript,  \* the messages appended to the page's transcript file, in order
  aCancelled,   \* whether the AbortSignal has been raised
  aErrorsAtSignal, \* stats.errorCount when the AbortSignal was raised (0 before)
  uUrl,         \* the string URLHelper.getTargetTypeByURL is given
  uType,        \* what the call returned or threw, "pending" before
  dThread,      \* the ThreadPage #getThreadSavePath is given: breadcrumbs, title, id
  dCfg,         \* config.dirStructure
  dPath,        \* the path returned, as its segments; <<>> before the call
  hInline,      \* per attachment of a page: whether the page supplied its filename inline
  hExists,      \* whether the files of the pages' attachments exist in the save directory
  hPages,       \* pages of the thread
  hPage,        \* the page #downloadThread is handling
  hDls,         \* the #downloadMessageAttachment call of each attachment of the page
  hPc,          \* position of #downloadThread around the filename lookups
  hJobs,        \* the __setAttachmentFilename call of each attachment
  hCancelled,   \* whether the AbortSignal has been raised
  mMessage,     \* the ThreadMessage MessageTemplate.format is given
  mRecord       \* the transcript record it returned, as its lines; <<>> before the call

threadVars == <<tLayout, tContinue, tFiles, tMarker, tPc, tUrl, tCtx, tMsgs, tCrashes, tCut,
               tDispatches, tWrites, tGone, tChecks, tWriteFailures, tGood>>

fetchVars == <<qMaxRetries, qHasCookie, qCancelled, qPc, qRt, qUrlHost, qUseCookie, qChain,
               qAttempts, qFailures, qError, qMethod, qStatus>>

forumVars == <<fSubs, fPages, fThreads, fTarget, fStack, fPc, fReqs, fCancelled>>

attachVars == <<aDests, aExisting, aOverwrite, aMaxConcurrent, aPc, aMsg, aJobs, aFs,
                aTranscript, aCancelled, aErrorsAtSignal>>

urlVars == <<uUrl, uType>>

pathVars == <<dThread, dCfg, dPath>>

lookupVars == <<hInline, hExists, hPages, hPage, hPc, hJobs, hDls, hCancelled>>

messageVars == <<mMessage, mRecord>>

vars == <<stats, threadVars, fetchVars, forumVars, attachVars, urlVars, pathVars, lookupVars,
          messageVars>>

\* What each specification leaves alone.
notThreadVars == <<fetchVars, forumVars, attachVars, urlVars, pathVars, lookupVars, messageVars>>
notFetchVars == <<stats, threadVars, forumVars, attachVars, urlVars, pathVars, lookupVars, messageVars>>
notForumVars == <<threadVars, fetchVars, attachVars, urlVars, pathVars, lookupVars, messageVars>>
notAttachVars == <<threadVars, fetchVars, forumVars, urlVars, pathVars, lookupVars, messageVars>>
notUrlVars == <<stats, threadVars, fetchVars, forumVars, attachVars, pathVars, lookupVars, messageVars>>
notPathVars == <<stats, threadVars, fetchVars, forumVars, attachVars, urlVars, lookupVars, messageVars>>
notLookupVars == <<stats, threadVars, fetchVars, forumVars, attachVars, urlVars, pathVars,
                   messageVars>>
notMessageVars == <<stats, threadVars, fetchVars, forumVars, attachVars, urlVars, pathVars,
                    lookupVars>>

(***************************************************************************)
(* DownloadStats                                                           *)
(***************************************************************************)
ZeroStats ==
  [ processedForumCount |-> 0, processedThreadCount |-> 0, processedMessageCount |-> 0,
    skippedExistingAttachmentCount |-> 0, downloadedAttachmentCount |-> 0, errorCount |-> 0 ]

\* #updateStatsOnError: every error but the limiter's drop error is counted.
UpdateStatsOnError(s, isLimiterStop) ==
  IF isLimiterStop THEN s ELSE [s EXCEPT !.errorCount = @ + 1]

(***************************************************************************)
(* Sequences                                                               *)
(***************************************************************************)
RECURSIVE SumSeq(_)
SumSeq(s) == IF s = <<>> THEN 0 ELSE Head(s) + SumSeq(Tail(s))

\* Array.prototype.findIndex, 1-based; 0 when no element matches.
RECURSIVE FindIndexFrom(_, _, _)
FindIndexFrom(s, x, i) ==
  IF i > Len(s) THEN 0 ELSE IF s[i] = x THEN i ELSE FindIndexFrom(s, x, i + 1)

FindIndex(s, x) == FindIndexFrom(s, x, 1)

Count(s, x) == Cardinality({i \in 1..Len(s) : s[i] = x})

(***************************************************************************)
(* URLHelper (src/src/lib/utils/URLHelper.ts).  A URL string is modelled   *)
(* by whether new URL() accepts it and by the segments that follow its     *)
(* host, separated by "/": the words "forums" and "threads", a segment     *)
(* "<slug>.<digits>" (two of them, with ids 1 and 2) and "other" for any   *)
(* other segment (page-2, index.php, categories, a query).                 *)
(***************************************************************************)
UrlTokens == {"forums", "threads", "slug.1", "slug.2", "other"}

UrlPaths == UNION {[1..n -> UrlTokens] : n \in 0..MaxUrlLen}

Urls == [valid : BOOLEAN, path : UrlPaths]

\* The digits of a "<slug>.<digits>" segment as a number; 0 for any other segment.
SlugId(token) == CASE token = "slug.1" -> 1 [] token = "slug.2" -> 2 [] OTHER -> 0

(***************************************************************************)
(* regex.exec for /\/forums\/(.+)\.(\d+)/ and /\/threads\/(.+)\.(\d+)/ on  *)
(* the whole string: the match starts at the first "/<key>/" that has a    *)
(* ".<digits>" somewhere after it, (.+) runs over "/" too and is greedy,   *)
(* so the id is that of the last "<slug>.<digits>" segment.  0 stands for  *)
(* the null of no match.                                                   *)
(***************************************************************************)
RegexExec(path, key) ==
  LET ends(i) == {j \in (i + 1)..Len(path) : SlugId(path[j]) # 0}
      starts == {i \in 1..Len(path) : path[i] = key /\ ends(i) # {}}
  IN IF starts = {} THEN 0
     ELSE LET i == CHOOSE x \in starts : \A y \in starts : x <= y
              j == CHOOSE x \in ends(i) : \A y \in ends(i) : y <= x
          IN SlugId(path[j])

\* parseForumURL and parseThreadURL: the id of the parsed object, 0 for null.
ParseForumURL(url) == RegexExec(url.path, "forums")

ParseThreadURL(url) == RegexExec(url.path, "threads")

GetTargetTypeUnchecked(url) ==
  IF ParseForumURL(url) # 0 THEN "forum"
  ELSE IF ParseThreadURL(url) # 0 THEN "thread"
  ELSE "unknown"

\* getTargetTypeByURL, lines 6-26.
GetTargetTypeByURL(url) ==
  IF ~url.valid THEN "InvalidURL"
  ELSE IF ParseForumURL(url) # 0 THEN "forum"
  ELSE IF ParseThreadURL(url) # 0 THEN "thread"
  ELSE "unknown"

\* One call of getTargetTypeByURL.
Classify ==
  /\ uType = "pending"
  /\ uType' = GetTargetTypeByURL(uUrl)
  /\ UNCHANGED uUrl
  /\ UNCHANGED notUrlVars

(***************************************************************************)
(* #getThreadSavePath (XenForoDownloader.ts lines 382-416).  Strings are   *)
(* sequences of characters.  A breadcrumb is a forum or a category of the  *)
(* board with its title and id; its url is the one the board links it by.  *)
(***************************************************************************)
Titles == {<<"a">>, <<"a", "/">>}

CrumbKinds == {"forum", "category"}

Crumbs == [title : Titles, kind : CrumbKinds, id : {1, 2}]

\* The url of a breadcrumb: /forums/<slug>.<id>/ for a forum, /categories/<slug>.<id>/
\* for a category.
CrumbUrl(crumb) ==
  [valid |-> TRUE,
   path |-> <<(IF crumb.kind = "forum" THEN "forums" ELSE "other"),
              (IF crumb.id = 1 THEN "slug.1" ELSE "slug.2")>>]

\* The thread pages: breadcrumbs[0] is the site crumb; the thread has a title and id 3.
ThreadPages ==
  [breadcrumbs : UNION {[1..n -> Crumbs] : n \in 0..MaxCrumbs}, title : Titles, id : {3}]

DirStructures == [site : BOOLEAN, parentForumsAndSections : {"none", "immediate", "all"},
                  thread : BOOLEAN]

\* A number as the string a template literal makes of it.
NumberToString(n) == CASE n = 1 -> <<"1">> [] n = 2 -> <<"2">> [] OTHER -> <<"3">>

\* sanitize-filename: the characters no file name may hold are removed.
SanitizeFilename(str) == SelectSeq(str, LAMBDA c : c # "/")

\* __pushPathPart, lines 384-391: the part pushed for a title and an id (0: undefined).
PathPart(title, id) ==
  IF id # 0 THEN SanitizeFilename(title \o <<".">> \o NumberToString(id))
  ELSE SanitizeFilename(title)

\* Lines 397-402: the parts of the breadcrumbs after the first, in order.
RECURSIVE AncestorParts(_)
AncestorParts(crumbs) ==
  IF crumbs = <<>> THEN <<>>
  ELSE <<PathPart(Head(crumbs).title, ParseForumURL(CrumbUrl(Head(crumbs))))>>
         \o AncestorParts(Tail(crumbs))

OutDir == <<"o", "u", "t">>

\* path.resolve(outDir, parts.join(path.sep)): empty segments vanish.
PathResolve(root, parts) == <<root>> \o SelectSeq(parts, LAMBDA part : part # <<>>)

GetThreadSavePath(thread, cfg) ==
  LET crumbs == thread.breadcrumbs
      sitePart == IF cfg.site /\ Len(crumbs) >= 1
                    THEN <<PathPart(crumbs[1].title, 0)>> ELSE <<>>
      last == crumbs[Len(crumbs)]
      parentParts ==
        IF Len(crumbs) > 1
          THEN IF cfg.parentForumsAndSections = "all" THEN AncestorParts(Tail(crumbs))
               ELSE IF cfg.parentForumsAndSections = "immediate"
                 THEN <<PathPart(last.title, ParseForumURL(CrumbUrl(last)))>>
               ELSE <<>>
          ELSE <<>>
      threadPart == IF cfg.thread THEN <<PathPart(thread.title, thread.id)>> ELSE <<>>
  IN PathResolve(OutDir, sitePart \o parentParts \o threadPart)

\* One call of #getThreadSavePath.
ResolvePath ==
  /\ dPath = <<>>
  /\ dPath' = GetThreadSavePath(dThread, dCfg)
  /\ UNCHANGED <<dThread, dCfg>>
  /\ UNCHANGED notPathVars

PathIdle ==
  /\ dThread = [breadcrumbs |-> <<>>, title |-> <<"a">>, id |-> 3]
  /\ dCfg = [site |-> FALSE, parentForumsAndSections |-> "none", thread |-> FALSE]
  /\ dPath = <<>>

UrlIdle ==
  /\ uUrl = [valid |-> TRUE, path |-> <<>>]
  /\ uType = "pending"

(***************************************************************************)
(* The thread on the server, as Parser.parseThreadPage delivers it: page p *)
(* holds tLayout[p] messages, ids ascending through the thread; the page's *)
(* canonical url is modelled by its number, nextURL by the next number.    *)
(***************************************************************************)
Layouts == UNION {[1..n -> 1..MaxPageLen] : n \in 1..MaxPages}

PageStart(layout, p) == SumSeq(SubSeq(layout, 1, p - 1))

PageMessages(layout, p) == [i \in 1..layout[p] |-> PageStart(layout, p) + i]

TotalMessages(layout) == SumSeq(layout)

PageOf(layout, m) == CHOOSE p \in 1..Len(layout) : FindIndex(PageMessages(layout, p), m) > 0

HasNextURL(layout, p) == p < Len(layout)

\* Transcript files: 0 stands for the thread header ThreadHeaderTemplate writes.
Header == 0
NoFiles == [p \in 1..MaxPages |-> <<>>]

NoStatus == [url |-> 0, messageID |-> 0]
NoContext == [continued |-> FALSE, continueFromMessageID |-> 0]

\* A marker file readJSONSync cannot parse, or whose record lacks a field (the url here).
CorruptStatus == [url |-> 0, messageID |-> 1]

\* #checkPreviousDownload line 500.
InvalidFormat(status) == status # NoStatus /\ (status.url = 0 \/ status.messageID = 0)

(***************************************************************************)
(* #checkPreviousDownload: the status record when the marker file exists   *)
(* (NoStatus stands for the `false` it returns otherwise); threw: the file *)
(* exists and the call raised an error instead of returning.               *)
(***************************************************************************)
CheckPreviousDownload ==
  [ threw |-> InvalidFormat(tMarker),
    status |-> IF InvalidFormat(tMarker) THEN NoStatus ELSE tMarker ]

\* The messages the server lists on page p: those of the layout but the deleted one.
ServedMessages(p) == SelectSeq(PageMessages(tLayout, p), LAMBDA m : m # tGone)

(***************************************************************************)
(* Lines 186-189: an error of the resume check is logged and the handler   *)
(* goes on with the page it fetched, its context and its stats unchanged.  *)
(***************************************************************************)
CheckFailedOuter(st) == [pc |-> "next", stats |-> UpdateStatsOnError(st, FALSE)]

CheckFailed(st) == [pc |-> "create", stats |-> st]

(***************************************************************************)
(* #downloadThread lines 192-201: with continueFromMessageID set, the      *)
(* messages up to and including it are spliced off the page.               *)
(***************************************************************************)
DropPreviousKeepLast(messages, ctx) ==
  IF ctx.continueFromMessageID # 0
    THEN LET i == FindIndex(messages, ctx.continueFromMessageID)
         IN IF i >= 1 THEN SubSeq(messages, i, Len(messages)) ELSE messages
    ELSE messages

DropPrevious(messages, ctx) ==
  IF ctx.continueFromMessageID # 0
    THEN LET i == FindIndex(messages, ctx.continueFromMessageID)
         IN IF i >= 1 THEN SubSeq(messages, i + 1, Len(messages)) ELSE messages
    ELSE messages

(***************************************************************************)
(* #createMessageFile's overwrite argument at line 246, and the file it    *)
(* leaves: kept as it is when it exists and overwrite is false, else       *)
(* written anew with the thread header.                                    *)
(***************************************************************************)
OverwriteMessageFile(ctx) == ~(ctx.continued /\ ctx.continueFromMessageID # 0)

\* The file is kept whenever it exists.
CreateMessageFileKept(file, overwrite) ==
  IF file # <<>> THEN file ELSE <<Header>>

CreateMessageFile(file, overwrite) ==
  IF ~overwrite /\ file # <<>> THEN file ELSE <<Header>>

(***************************************************************************)
(* start() and #process for a thread URL: a run begins with fresh stats at *)
(* the thread's first page, without context.  The first run chooses        *)
(* config.continue; a run after a crash or a cut-back has it enabled.      *)
(***************************************************************************)
ThreadStart(c) ==
  /\ tPc \in {"idle", "crashed", "cut"}
  /\ tPc # "idle" => c = TRUE
  /\ tContinue' = c
  /\ stats' = ZeroStats
  /\ tUrl' = 1
  /\ tCtx' = NoContext
  /\ tMsgs' = <<>>
  /\ tPc' = "fetch"
  /\ tDispatches' = 1
  /\ tWrites' = <<>>
  /\ tChecks' = 0
  /\ UNCHANGED <<tLayout, tFiles, tMarker, tCrashes, tCut, tGone, tWriteFailures, tGood>>
  /\ UNCHANGED notThreadVars

(***************************************************************************)
(* #downloadThread lines 166-201: fetch and parse the page; on the first   *)
(* page of a run with config.continue, a found status record re-dispatches *)
(* to its url; otherwise the already downloaded messages are dropped.  A   *)
(* failed fetch or parse is counted, leaves threadPage null and so ends    *)
(* the handler (lines 269-284).  A resume check that throws leaves the     *)
(* page to be processed as it was fetched.                                 *)
(***************************************************************************)
ThreadFetchPage(ok) ==
  /\ tPc = "fetch"
  /\ IF ~ok
       THEN /\ stats' = UpdateStatsOnError(stats, FALSE)
            /\ tPc' = "failed"
            /\ UNCHANGED <<tUrl, tCtx, tMsgs, tChecks>>
       ELSE IF ~tCtx.continued /\ tContinue
         THEN /\ tChecks' = tChecks + 1
              /\ IF CheckPreviousDownload.threw
                   THEN /\ tMsgs' = DropPrevious(ServedMessages(tUrl), tCtx)
                        /\ tPc' = CheckFailed(stats).pc
                        /\ stats' = CheckFailed(stats).stats
                        /\ UNCHANGED <<tUrl, tCtx>>
                   ELSE IF CheckPreviousDownload.status # NoStatus
                     THEN /\ tUrl' = CheckPreviousDownload.status.url
                          /\ tCtx' = [continued |-> TRUE,
                                      continueFromMessageID |->
                                        CheckPreviousDownload.status.messageID]
                          /\ tPc' = "fetch"
                          /\ UNCHANGED <<stats, tMsgs>>
                     ELSE /\ tMsgs' = DropPrevious(ServedMessages(tUrl), tCtx)
                          /\ tPc' = "create"
                          /\ UNCHANGED <<stats, tUrl, tCtx>>
         ELSE /\ tMsgs' = DropPrevious(ServedMessages(tUrl), tCtx)
              /\ tPc' = "create"
              /\ UNCHANGED <<stats, tUrl, tCtx, tChecks>>
  /\ UNCHANGED <<tLayout, tContinue, tFiles, tMarker, tCrashes, tCut, tDispatches, tWrites,
                 tGone, tWriteFailures, tGood>>
  /\ UNCHANGED notThreadVars

(***************************************************************************)
(* #downloadThread lines 241-248: the message file of the page is created  *)
(* or kept; an empty page goes straight to the page's end.                 *)
(***************************************************************************)
ThreadCreateMessageFile ==
  /\ tPc = "create"
  /\ tFiles' = [tFiles EXCEPT ![tUrl] = CreateMessageFile(@, OverwriteMessageFile(tCtx))]
  /\ tPc' = IF tMsgs = <<>> THEN "next" ELSE "attach"
  /\ UNCHANGED <<stats, tLayout, tContinue, tMarker, tUrl, tCtx, tMsgs, tCrashes, tCut,
                 tDispatches, tWrites, tGone, tChecks, tWriteFailures, tGood>>
  /\ UNCHANGED notThreadVars

(***************************************************************************)
(* Lines 257-260: the attachments of the message have settled (SpecAttach  *)
(* models the fan-out itself).                                             *)
(***************************************************************************)
ThreadAttachmentsSettled ==
  /\ tPc = "attach"
  /\ tPc' = "save"
  /\ UNCHANGED <<stats, tLayout, tContinue, tFiles, tMarker, tUrl, tCtx, tMsgs, tCrashes, tCut,
                 tDispatches, tWrites, tGone, tChecks, tWriteFailures, tGood>>
  /\ UNCHANGED notThreadVars

(***************************************************************************)
(* Lines 261-262 and #saveMessage: the record is appended to the page's    *)
(* file and the message counted.                                           *)
(***************************************************************************)
SaveMessage(file, message) == Append(file, message)

ThreadSaveMessage ==
  /\ tPc = "save"
  /\ tFiles' = [tFiles EXCEPT ![tUrl] = SaveMessage(@, Head(tMsgs))]
  /\ stats' = [stats EXCEPT !.processedMessageCount = @ + 1]
  /\ tPc' = "status"
  /\ UNCHANGED <<tLayout, tContinue, tMarker, tUrl, tCtx, tMsgs, tCrashes, tCut, tDispatches,
                 tWrites, tGone, tChecks, tWriteFailures, tGood>>
  /\ UNCHANGED notThreadVars

(***************************************************************************)
(* Line 264 and #saveDownloadStatus: the marker names the message just     *)
(* saved and the url of the parsed page; the loop moves on.  A write that  *)
(* fails (lines 519-521) is logged; it leaves the file as it was, or       *)
(* truncated when the failure came after the file was opened for writing.  *)
(***************************************************************************)
SaveDownloadStatus(page, message) == [url |-> page, messageID |-> message]

\* The loop after line 264: the next message of the page, or the page's end.
LoopOn(msgs) == IF Tail(msgs) = <<>> THEN "next" ELSE "attach"

StatusWriteThrown(st, msgs) == [pc |-> "next", stats |-> UpdateStatsOnError(st, FALSE)]

StatusWriteFailed(st, msgs) == [pc |-> LoopOn(msgs), stats |-> st]

ThreadSaveDownloadStatus(ok, truncated) ==
  /\ tPc = "status"
  /\ tMsgs' = Tail(tMsgs)
  /\ tWrites' = Append(tWrites, Head(tMsgs))
  /\ IF ok
       THEN /\ ~truncated
            /\ tMarker' = SaveDownloadStatus(tUrl, Head(tMsgs))
            /\ tGood' = tMarker'
            /\ tPc' = LoopOn(tMsgs)
            /\ UNCHANGED <<stats, tWriteFailures>>
       ELSE /\ tWriteFailures < MaxWriteFailures
            /\ tWriteFailures' = tWriteFailures + 1
            /\ tMarker' = IF truncated THEN CorruptStatus ELSE tMarker
            /\ tPc' = StatusWriteFailed(stats, tMsgs).pc
            /\ stats' = StatusWriteFailed(stats, tMsgs).stats
            /\ UNCHANGED tGood
  /\ UNCHANGED <<tLayout, tContinue, tFiles, tUrl, tCtx, tCrashes, tCut, tDispatches, tGone,
                 tChecks>>
  /\ UNCHANGED notThreadVars

(***************************************************************************)
(* Lines 276-284: with a nextURL the handler recurses, marked continued    *)
(* when config.continue is set; without, the thread is done and counted.   *)
(***************************************************************************)
NextPageContextNone(c) == NoContext

NextPageContext(c) == IF c THEN [continued |-> TRUE, continueFromMessageID |-> 0] ELSE NoContext

\* Lines 281-284: the call that parsed a page without nextURL counts the thread.
ThreadDoneNotCounted(st) == st

ThreadDone(st) == [st EXCEPT !.processedThreadCount = @ + 1]

ThreadNextPage ==
  /\ tPc = "next"
  /\ IF HasNextURL(tLayout, tUrl)
       THEN /\ tUrl' = tUrl + 1
            /\ tCtx' = NextPageContext(tContinue)
            /\ tPc' = "fetch"
            /\ UNCHANGED stats
       ELSE /\ stats' = ThreadDone(stats)
            /\ tPc' = "done"
            /\ UNCHANGED <<tUrl, tCtx>>
  /\ UNCHANGED <<tLayout, tContinue, tFiles, tMarker, tMsgs, tCrashes, tCut, tDispatches, tWrites,
                 tGone, tChecks, tWriteFailures, tGood>>
  /\ UNCHANGED notThreadVars

(***************************************************************************)
(* #downloadForum lines 305-307: the threads a forum page lists are        *)
(* handed to #process one after the other, whatever was handled before;    *)
(* a url listed again (a second listing, a later page of the forum, a      *)
(* forum reached again) starts the thread handler anew in the same run,    *)
(* without context, with the run's stats.                                  *)
(***************************************************************************)
ThreadDispatchAgain ==
  /\ tPc \in {"done", "failed"}
  /\ tDispatches < MaxDispatches
  /\ tDispatches' = tDispatches + 1
  /\ tUrl' = 1
  /\ tCtx' = NoContext
  /\ tMsgs' = <<>>
  /\ tPc' = "fetch"
  /\ tChecks' = 0
  /\ UNCHANGED <<stats, tLayout, tContinue, tFiles, tMarker, tCrashes, tCut, tWrites, tGone,
                 tWriteFailures, tGood>>
  /\ UNCHANGED notThreadVars

(***************************************************************************)
(* The environment: the process is killed at any step of a run; the files  *)
(* on disk stay as they are.                                               *)
(***************************************************************************)
ThreadRunning == tPc \in {"fetch", "create", "attach", "save", "status", "next"}

ThreadCrash ==
  /\ ThreadRunning
  /\ tCrashes < MaxCrashes
  /\ tCrashes' = tCrashes + 1
  /\ tPc' = "crashed"
  /\ UNCHANGED <<stats, tLayout, tContinue, tFiles, tMarker, tUrl, tCtx, tMsgs, tCut,
               tDispatches, tWrites, tGone, tChecks, tWriteFailures, tGood>>
  /\ UNCHANGED notThreadVars

(***************************************************************************)
(* The environment: between an interrupted run and the next one, the       *)
(* message the marker names is deleted on the server; the page the marker  *)
(* names lists the other messages as before.                               *)
(***************************************************************************)
ThreadModerate ==
  /\ tPc = "crashed"
  /\ tGone = 0
  /\ tMarker # NoStatus /\ ~InvalidFormat(tMarker)
  /\ tGone' = tMarker.messageID
  /\ UNCHANGED <<stats, tLayout, tContinue, tFiles, tMarker, tPc, tUrl, tCtx, tMsgs, tCrashes,
                 tCut, tDispatches, tWrites, tChecks, tWriteFailures, tGood>>
  /\ UNCHANGED notThreadVars

(***************************************************************************)
(* The environment: after a complete, uninterrupted run the output is cut  *)
(* back to the first n messages and the marker made to name message n and  *)
(* the page holding it.                                                    *)
(***************************************************************************)
FullFile(layout, p) == <<Header>> \o PageMessages(layout, p)

FullFiles(layout) ==
  [p \in 1..MaxPages |-> IF p <= Len(layout) THEN FullFile(layout, p) ELSE <<>>]

CutFiles(layout, n) ==
  [p \in 1..MaxPages |->
     IF p > Len(layout) \/ PageStart(layout, p) >= n THEN <<>>
     ELSE <<Header>> \o SelectSeq(PageMessages(layout, p), LAMBDA m : m <= n)]

ThreadCutBack(n) ==
  /\ tPc = "done"
  /\ tCut = 0
  /\ tCrashes = 0
  /\ n \in 1..TotalMessages(tLayout)
  /\ tFiles' = CutFiles(tLayout, n)
  /\ tMarker' = [url |-> PageOf(tLayout, n), messageID |-> n]
  /\ tGood' = tMarker'
  /\ tCut' = n
  /\ tPc' = "cut"
  /\ UNCHANGED <<stats, tLayout, tContinue, tUrl, tCtx, tMsgs, tCrashes, tDispatches, tWrites,
                 tGone, tChecks, tWriteFailures>>
  /\ UNCHANGED notThreadVars

(***************************************************************************)
(* Fetcher (src/unnamed/part_004).  Errors are records: FetcherError of    *)
(* lines 80-82 is never fatal, and its message carries " (retried rt       *)
(* times)" only when rt > 0.                                                *)
(***************************************************************************)
NoError == [kind |-> "none", fatal |-> FALSE, retried |-> 0, annotated |-> FALSE]

AbortError == [kind |-> "AbortError", fatal |-> TRUE, retried |-> 0, annotated |-> FALSE]

FetcherError(rt) ==
  [kind |-> "FetcherError", fatal |-> FALSE, retried |-> rt, annotated |-> rt > 0]

\* The host of the url fetchHTML was called with.
OrigHost == 1

Hosts == 1..NumHosts

\* #setHeaders: whether the request carries the Cookie header.
SetHeaders(hasCookie, setCookie) == hasCookie /\ setCookie

\* #fetchWithRedirect line 169: the hop's own url is compared with the Location.
RedirectWithCookie(urlHost, toHost) == urlHost = toHost

\* The retry test of the catch blocks (line 76, 109, 149).
ShouldRetryOnceMore(rt, maxRetries) == rt <= maxRetries

ShouldRetry(rt, maxRetries) == rt < maxRetries

\* A request as it goes on the wire.
Request(host, cookie) == [host |-> host, cookie |-> cookie]

(***************************************************************************)
(* fetchHTML(args, rt) line 66: #fetchWithRedirect(url, 'GET', signal)     *)
(* with useCookie defaulting to true; fetch() rejects at once, sending     *)
(* nothing, when the signal is already raised.                             *)
(***************************************************************************)
BeginAttempt(rt) ==
  /\ qRt' = rt
  /\ qStatus' = "none"
  /\ IF qCancelled
       THEN /\ qPc' = "aborted"
            /\ qError' = AbortError
            /\ UNCHANGED <<qUrlHost, qUseCookie, qChain, qAttempts>>
       ELSE /\ qPc' = "request"
            /\ qUrlHost' = OrigHost
            /\ qUseCookie' = TRUE
            /\ qChain' = <<Request(OrigHost, SetHeaders(qHasCookie, TRUE))>>
            /\ qAttempts' = qAttempts + 1
            /\ UNCHANGED qError

FetchHTML ==
  /\ qPc = "idle"
  /\ BeginAttempt(0)
  /\ UNCHANGED <<qMethod, qMaxRetries, qHasCookie, qCancelled, qFailures>>
  /\ UNCHANGED notFetchVars

(***************************************************************************)
(* #fetchWithRedirect lines 165-171: a 3xx response with a Location is     *)
(* followed by a recursive call, which sets its headers anew.              *)
(***************************************************************************)
FetchRedirect(toHost) ==
  /\ qPc = "request"
  /\ ~qCancelled
  /\ Len(qChain) < MaxHops
  /\ qUseCookie' = RedirectWithCookie(qUrlHost, toHost)
  /\ qUrlHost' = toHost
  /\ qChain' = Append(qChain, Request(toHost, SetHeaders(qHasCookie, qUseCookie')))
  /\ UNCHANGED <<qMethod, qStatus, qMaxRetries, qHasCookie, qCancelled, qPc, qRt, qAttempts, qFailures, qError>>
  /\ UNCHANGED notFetchVars

(***************************************************************************)
(* Lines 165-171 keep no count of the hops: the server may answer the      *)
(* request of every further hop with a redirect as well.  From hop MaxHops *)
(* on qChain holds the last MaxHops requests of the attempt.               *)
(***************************************************************************)
FetchRedirectOn(toHost) ==
  /\ qPc = "request"
  /\ ~qCancelled
  /\ Len(qChain) = MaxHops
  /\ qUseCookie' = RedirectWithCookie(qUrlHost, toHost)
  /\ qUrlHost' = toHost
  /\ qChain' = Append(Tail(qChain), Request(toHost, SetHeaders(qHasCookie, qUseCookie')))
  /\ UNCHANGED <<qMethod, qStatus, qMaxRetries, qHasCookie, qCancelled, qPc, qRt, qAttempts, qFailures, qError>>
  /\ UNCHANGED notFetchVars

(***************************************************************************)
(* Lines 172-173: a 3xx response without Location sends the same request   *)
(* once more, this time without the signal.                                *)
(***************************************************************************)
FetchNoLocation ==
  /\ qPc = "request"
  /\ ~qCancelled
  /\ qChain' = Append(qChain, qChain[Len(qChain)])
  /\ qPc' = "fallback"
  /\ UNCHANGED <<qMethod, qStatus, qMaxRetries, qHasCookie, qCancelled, qRt, qUrlHost, qUseCookie, qAttempts,
                 qFailures, qError>>
  /\ UNCHANGED notFetchVars

(***************************************************************************)
(* Line 175 (and the response of line 173): any other response, of a 2xx   *)
(* status or not, is handed back.  fetchHTML reads its body (line 68)      *)
(* whatever the status; fetchFilenameByHeaders returns what its            *)
(* Content-Disposition header says (lines 97-103).                         *)
(***************************************************************************)
FetchResponse(ok) ==
  /\ \/ qPc = "request" /\ ~qCancelled /\ qPc' = (IF qMethod = "GET" THEN "text" ELSE "returned")
     \/ qPc = "fallback" /\ qPc' = (IF qMethod = "GET" THEN "textUnsignalled" ELSE "returned")
  /\ qStatus' = (IF ok THEN "ok" ELSE "notOK")
  /\ UNCHANGED <<qMethod, qMaxRetries, qHasCookie, qCancelled, qRt, qUrlHost, qUseCookie, qChain,
                 qAttempts, qFailures, qError>>
  /\ UNCHANGED notFetchVars

FetchText ==
  /\ \/ qPc = "text" /\ ~qCancelled
     \/ qPc = "textUnsignalled"
  /\ qPc' = "returned"
  /\ UNCHANGED <<qMethod, qStatus, qMaxRetries, qHasCookie, qCancelled, qRt, qUrlHost, qUseCookie, qChain,
                 qAttempts, qFailures, qError>>
  /\ UNCHANGED notFetchVars

(***************************************************************************)
(* The catch block, lines 72-83 (105-116): an AbortError or a fatal        *)
(* FetcherError is rethrown; any other error is retried after the pause    *)
(* while rt < maxRetries, and else thrown as a FetcherError.               *)
(***************************************************************************)
NetworkError == [kind |-> "Error", fatal |-> FALSE, retried |-> 0, annotated |-> FALSE]

RethrownIfFatal(error) == error.kind = "FetcherError" /\ error.fatal

Rethrown(error) == error.kind = "AbortError" \/ (error.kind = "FetcherError" /\ error.fatal)

Catch(error) ==
  IF Rethrown(error)
    THEN qPc' = "aborted" /\ qError' = error /\ UNCHANGED qFailures
    ELSE /\ qFailures' = qFailures + 1
         /\ IF ShouldRetry(qRt, qMaxRetries)
              THEN qPc' = "sleep" /\ UNCHANGED qError
              ELSE qPc' = "failed" /\ qError' = FetcherError(qRt)

\* A network error of the request or of the body, or a Content-Disposition header
\* that contentDisposition.parse rejects.
FetchNetworkError ==
  /\ \/ qPc \in {"request", "text"} /\ ~qCancelled
     \/ qPc \in {"fallback", "textUnsignalled"}
  /\ Catch(NetworkError)
  /\ UNCHANGED <<qMethod, qStatus, qMaxRetries, qHasCookie, qCancelled, qRt, qUrlHost, qUseCookie,
                 qChain, qAttempts>>
  /\ UNCHANGED notFetchVars

\* sleepBeforeExecute has waited retryInterval: line 78 calls fetchHTML with rt + 1.
FetchRetry ==
  /\ qPc = "sleep"
  /\ BeginAttempt(qRt + 1)
  /\ UNCHANGED <<qMethod, qMaxRetries, qHasCookie, qCancelled, qFailures>>
  /\ UNCHANGED notFetchVars

(***************************************************************************)
(* The raised signal ends a request made with it, or the reading of its    *)
(* body, in an AbortError, which the catch block gets.                     *)
(***************************************************************************)
FetchAbort ==
  /\ qCancelled
  /\ qPc \in {"request", "text"}
  /\ Catch(AbortError)
  /\ UNCHANGED <<qMethod, qStatus, qMaxRetries, qHasCookie, qCancelled, qRt, qUrlHost, qUseCookie,
                 qChain, qAttempts>>
  /\ UNCHANGED notFetchVars

\* The environment raises the AbortSignal.
FetchCancel ==
  /\ ~qCancelled
  /\ qPc \notin {"returned", "failed", "aborted"}
  /\ qCancelled' = TRUE
  /\ UNCHANGED <<qMethod, qStatus, qMaxRetries, qHasCookie, qPc, qRt, qUrlHost, qUseCookie, qChain,
                 qAttempts, qFailures, qError>>
  /\ UNCHANGED notFetchVars

FetchIdle ==
  /\ qMaxRetries = 0
  /\ qHasCookie = FALSE
  /\ qCancelled = FALSE
  /\ qPc = "idle"
  /\ qRt = 0
  /\ qUrlHost = OrigHost
  /\ qUseCookie = TRUE
  /\ qChain = <<>>
  /\ qAttempts = 0
  /\ qFailures = 0
  /\ qError = NoError
  /\ qMethod = "GET"
  /\ qStatus = "none"

(***************************************************************************)
(* The site as Parser.parseForumPage delivers it: forum f has fPages       *)
(* listing pages, each with fThreads threads and a nextURL but the last;   *)
(* fSubs[f] are the subforums its pages list, in ascending order.  Nothing *)
(* keeps a subforum from linking back to an ancestor.                      *)
(***************************************************************************)
Forums == 1..NumForums

\* Forum trees rooted at forum 1: every other forum is listed by a forum before it.
ForumTrees == {t \in [Forums -> Forums \cup {0}] : t[1] = 0 /\ \A f \in Forums \ {1} : t[f] \in 1..(f - 1)}

RECURSIVE AncestorsOrSelf(_, _)
AncestorsOrSelf(t, f) == IF f = 0 THEN {} ELSE {f} \cup AncestorsOrSelf(t, t[f])

\* The sites: a forum tree in which at most one forum also links to itself or an ancestor.
Sites ==
  { [f \in Forums |-> {c \in Forums : t[c] = f} \cup (IF f = from /\ to # 0 THEN {to} ELSE {})] :
      <<t, from, to>> \in {x \in ForumTrees \X Forums \X (Forums \cup {0}) :
                             x[3] = 0 \/ x[3] \in AncestorsOrSelf(x[1], x[2])} }

RECURSIVE SetToSeq(_)
SetToSeq(S) ==
  IF S = {} THEN <<>>
  ELSE LET x == CHOOSE y \in S : \A z \in S : y <= z IN <<x>> \o SetToSeq(S \ {x})

Subforums(f) == SetToSeq(fSubs[f])

\* A pending call: a forum listing page or a thread, and where it stands.
ForumFrame(f, page) == [kind |-> "forum", id |-> f, page |-> page, pc |-> "fetch", i |-> 0]

ThreadFrame(f) == [kind |-> "thread", id |-> f, page |-> 1, pc |-> "fetch", i |-> 0]

Top(stack) == stack[Len(stack)]

Pop(stack) == SubSeq(stack, 1, Len(stack) - 1)

ReplaceTop(stack, frame) == Append(Pop(stack), frame)

(***************************************************************************)
(* The orchestrator between two awaited page fetches.  Continue runs the   *)
(* pending calls from where the innermost one stands to the next           *)
(* #fetchPage call (a frame at "fetch") or to the end of the crawl:        *)
(*   lines 302-308  the threads of the page, one #process call at a time;  *)
(*   lines 318-321  then the next listing page of the forum;               *)
(*   lines 322-332  on the last page the subforums, one #downloadForum     *)
(*                  call at a time, then processedForumCount++.            *)
(* A descent below MaxDepth is not followed: the frame stays "overflow".   *)
(***************************************************************************)
RECURSIVE Continue(_, _)
Continue(stack, st) ==
  IF stack = <<>> THEN [stack |-> stack, stats |-> st]
  ELSE LET top == Top(stack) IN
    CASE top.pc = "threads" ->
           IF top.i < fThreads
             THEN [stack |-> Append(ReplaceTop(stack, [top EXCEPT !.i = @ + 1]),
                                    ThreadFrame(top.id)),
                   stats |-> st]
           ELSE IF top.page < fPages
             THEN [stack |-> ReplaceTop(stack, ForumFrame(top.id, top.page + 1)), stats |-> st]
           ELSE Continue(ReplaceTop(stack, [top EXCEPT !.pc = "subforums", !.i = 0]), st)
      [] top.pc = "subforums" ->
           IF top.i < Len(Subforums(top.id))
             THEN IF Len(stack) >= MaxDepth
                    THEN [stack |-> ReplaceTop(stack, [top EXCEPT !.pc = "overflow"]),
                          stats |-> st]
                    ELSE [stack |-> Append(ReplaceTop(stack, [top EXCEPT !.i = @ + 1]),
                                           ForumFrame(Subforums(top.id)[top.i + 1], 1)),
                          stats |-> st]
             ELSE Continue(Pop(stack), [st EXCEPT !.processedForumCount = @ + 1])
      [] OTHER -> [stack |-> stack, stats |-> st]

(***************************************************************************)
(* #downloadThread and #downloadForum after their #fetchPage call:         *)
(* a fetched and parsed thread page without nextURL counts the thread      *)
(* (lines 281-284), a forum page goes on to its threads; a non-fatal       *)
(* error is counted and, the page being null, ends the call (lines         *)
(* 269-275, 311-317).                                                      *)
(***************************************************************************)
PageFetched(stack, st) ==
  IF Top(stack).kind = "thread"
    THEN Continue(Pop(stack), [st EXCEPT !.processedThreadCount = @ + 1])
    ELSE Continue(ReplaceTop(stack, [Top(stack) EXCEPT !.pc = "threads", !.i = 0]), st)

PageFailedEndsCaller(stack, st) == Continue(Pop(Pop(stack)), UpdateStatsOnError(st, FALSE))

PageFailed(stack, st) == Continue(Pop(stack), UpdateStatsOnError(st, FALSE))

(***************************************************************************)
(* pageFetchLimiter (constructor lines 69-72) and #fetchPage.  A request   *)
(* is free, queued in the limiter, on the wire ("request") or pausing      *)
(* before a retry ("sleep"); `attached` tells that the promise the limiter *)
(* and the caller await is the one of this fetchHTML call.                 *)
(***************************************************************************)
PageMaxConcurrent == 1

ReqIds == 1..MaxPageRequests

FreeReq == [st |-> "free", rt |-> 0, attached |-> FALSE]

\* #fetchPage lines 367-375: the scheduled job returns the fetchHTML promise.
FetchPageJob == [st |-> "request", rt |-> 0, attached |-> TRUE]

InFlight(reqs) == {r \in ReqIds : reqs[r].st \in {"request", "sleep"}}

\* The jobs the limiter counts as executing.
Running(reqs) == {r \in InFlight(reqs) : reqs[r].attached}

Queued(reqs) == {r \in ReqIds : reqs[r].st = "queued"}

\* limiter.schedule: the job waits in the limiter's queue.
Schedule(reqs) ==
  LET r == CHOOSE x \in ReqIds : reqs[x].st = "free" /\ \A y \in ReqIds : reqs[y].st = "free" => x <= y
  IN [reqs EXCEPT ![r] = [st |-> "queued", rt |-> 0, attached |-> TRUE]]

(***************************************************************************)
(* fetchHTML lines 72-83 as the limiter and the caller see them: while     *)
(* rt < maxRetries the call pauses and its promise stays pending (the      *)
(* retry is returned, line 78); else the FetcherError is thrown.           *)
(***************************************************************************)
RetryNotReturned(req, maxRetries) ==
  IF ShouldRetry(req.rt, maxRetries)
    THEN [req |-> [req EXCEPT !.st = "sleep", !.attached = FALSE], thrown |-> req.attached]
    ELSE [req |-> FreeReq, thrown |-> req.attached]

RetryOrThrow(req, maxRetries) ==
  IF ShouldRetry(req.rt, maxRetries)
    THEN [req |-> [req EXCEPT !.st = "sleep"], thrown |-> FALSE]
    ELSE [req |-> FreeReq, thrown |-> req.attached]

(***************************************************************************)
(* The orchestrator runs on to its next #fetchPage call, which schedules a *)
(* job, or to the end of #process, after which start() reports (lines 92,  *)
(* 118-126).  reqs is the limiter without the request that has settled.    *)
(***************************************************************************)
ForumResumeWithoutReport(r, reqs) ==
  /\ stats' = r.stats
  /\ IF r.stack # <<>> /\ Top(r.stack).pc = "fetch"
       THEN /\ fStack' = ReplaceTop(r.stack, [Top(r.stack) EXCEPT !.pc = "await"])
            /\ fReqs' = Schedule(reqs)
            /\ UNCHANGED fPc
       ELSE fStack' = r.stack /\ fReqs' = reqs /\ UNCHANGED fPc

ForumResume(r, reqs) ==
  /\ stats' = r.stats
  /\ IF r.stack = <<>>
       THEN fStack' = r.stack /\ fPc' = "reported" /\ fReqs' = reqs
     ELSE IF Top(r.stack).pc = "fetch"
       THEN /\ fStack' = ReplaceTop(r.stack, [Top(r.stack) EXCEPT !.pc = "await"])
            /\ fReqs' = Schedule(reqs)
            /\ UNCHANGED fPc
     ELSE fStack' = r.stack /\ fReqs' = reqs /\ UNCHANGED fPc

\* config.targetURL: the url of forum 1, or a string new URL() rejects (the same
\* without its scheme).
ForumTarget == [valid |-> TRUE, path |-> <<"forums", "slug.1">>]

InvalidTarget == [valid |-> FALSE, path |-> <<"forums", "slug.1">>]

(***************************************************************************)
(* start() and #process (lines 81-92, 147-163): the target is classified;  *)
(* the Error getTargetTypeByURL throws leaves #process for the catch block *)
(* of start(), a forum url goes to #downloadForum.                         *)
(***************************************************************************)
ForumStart ==
  /\ fPc = "idle"
  /\ IF GetTargetTypeByURL(fTarget) = "InvalidURL"
       THEN fPc' = "threw" /\ UNCHANGED <<fStack, fReqs>>
       ELSE /\ fPc' = "running"
            /\ fStack' = <<[ForumFrame(1, 1) EXCEPT !.pc = "await"]>>
            /\ fReqs' = Schedule(fReqs)
  /\ UNCHANGED <<stats, fSubs, fPages, fThreads, fTarget, fCancelled>>
  /\ UNCHANGED notForumVars

\* The limiter starts a queued job when fewer than maxConcurrent are executing.
PageDispatch(r) ==
  /\ fPc = "running"
  /\ fReqs[r].st = "queued"
  /\ Cardinality(Running(fReqs)) < PageMaxConcurrent
  /\ fReqs' = [fReqs EXCEPT ![r] = FetchPageJob]
  /\ UNCHANGED <<stats, fSubs, fPages, fThreads, fTarget, fStack, fPc, fCancelled>>
  /\ UNCHANGED notForumVars

\* fetchHTML returns the page, the parser delivers it: the awaiting call goes on.
PageAttemptOK(r) ==
  /\ fReqs[r].st = "request"
  /\ ~fCancelled
  /\ IF fReqs[r].attached /\ fPc = "running"
       THEN ForumResume(PageFetched(fStack, stats), [fReqs EXCEPT ![r] = FreeReq])
       ELSE fReqs' = [fReqs EXCEPT ![r] = FreeReq] /\ UNCHANGED <<stats, fStack, fPc>>
  /\ UNCHANGED <<fSubs, fPages, fThreads, fTarget, fCancelled>>
  /\ UNCHANGED notForumVars

\* A failed attempt, or on the last attempt a page the parser rejects.
PageAttemptFail(r) ==
  /\ fReqs[r].st = "request"
  /\ ~fCancelled
  /\ LET after == RetryOrThrow(fReqs[r], ForumMaxRetries) IN
       IF after.thrown /\ fPc = "running"
         THEN ForumResume(PageFailed(fStack, stats), [fReqs EXCEPT ![r] = after.req])
         ELSE fReqs' = [fReqs EXCEPT ![r] = after.req] /\ UNCHANGED <<stats, fStack, fPc>>
  /\ UNCHANGED <<fSubs, fPages, fThreads, fTarget, fCancelled>>
  /\ UNCHANGED notForumVars

\* The pause is over: fetchHTML is called with rt + 1.
PageRetry(r) ==
  /\ fReqs[r].st = "sleep"
  /\ fReqs' = [fReqs EXCEPT ![r].st = "request", ![r].rt = @ + 1]
  /\ UNCHANGED <<stats, fSubs, fPages, fThreads, fTarget, fStack, fPc, fCancelled>>
  /\ UNCHANGED notForumVars

\* #isErrorNonContinuable, lines 378-380.
IsErrorFatalFetcherError(error) == error.kind = "FetcherError" /\ error.fatal

IsErrorNonContinuable(error) ==
  error.kind = "AbortError" \/ (error.kind = "FetcherError" /\ error.fatal)

(***************************************************************************)
(* The raised signal ends the request in an AbortError, which every catch  *)
(* block up to start() rethrows (#isErrorNonContinuable): all pending      *)
(* calls are abandoned.                                                    *)
(***************************************************************************)
PageAbort(r) ==
  /\ fReqs[r].st = "request"
  /\ fCancelled
  /\ IF fReqs[r].attached /\ fPc = "running"
       THEN IF IsErrorNonContinuable(AbortError)
              THEN /\ fStack' = <<>> /\ fPc' = "unwound"
                   /\ fReqs' = [fReqs EXCEPT ![r] = FreeReq]
                   /\ UNCHANGED stats
              ELSE ForumResume(PageFailed(fStack, stats), [fReqs EXCEPT ![r] = FreeReq])
       ELSE fReqs' = [fReqs EXCEPT ![r] = FreeReq] /\ UNCHANGED <<stats, fStack, fPc>>
  /\ UNCHANGED <<fSubs, fPages, fThreads, fTarget, fCancelled>>
  /\ UNCHANGED notForumVars

(***************************************************************************)
(* start() lines 94-126: the catch block counts an error that is not an    *)
(* AbortError, stops both limiters, which drops their waiting jobs, and    *)
(* the summary is logged.                                                  *)
(***************************************************************************)
ForumStartCatch ==
  /\ fPc \in {"unwound", "threw"}
  /\ fPc' = "reported"
  /\ stats' = IF fPc = "threw" THEN UpdateStatsOnError(stats, FALSE) ELSE stats
  /\ fReqs' = [r \in ReqIds |-> IF fReqs[r].st = "queued" THEN FreeReq ELSE fReqs[r]]
  /\ UNCHANGED <<fSubs, fPages, fThreads, fTarget, fStack, fCancelled>>
  /\ UNCHANGED notForumVars

\* The environment raises the AbortSignal.
ForumCancel ==
  /\ fPc = "running"
  /\ ~fCancelled
  /\ fCancelled' = TRUE
  /\ UNCHANGED <<stats, fSubs, fPages, fThreads, fTarget, fStack, fPc, fReqs>>
  /\ UNCHANGED notForumVars

ForumIdle ==
  /\ fSubs = [f \in Forums |-> {}]
  /\ fPages = 1
  /\ fThreads = 0
  /\ fTarget = ForumTarget
  /\ fStack = <<>>
  /\ fPc = "idle"
  /\ fReqs = [r \in ReqIds |-> FreeReq]
  /\ fCancelled = FALSE

(***************************************************************************)
(* The attachments of a message as Parser.parseThreadPage delivers them:   *)
(* one per attachment link, a link that occurs twice included.  Every      *)
(* message of the page links the same number of attachments to files of    *)
(* its own; aDests[j] is the file #getMessageAttachmentFilename resolves   *)
(* for the j-th attachment.                                                *)
(***************************************************************************)
Dests == 1..MaxAttachments

AttachmentLists ==
  {[j \in 1..n |-> j] : n \in {0, 1, MaxAttachments}}
    \cup {[j \in 1..MaxAttachments |-> IF j = MaxAttachments THEN 1 ELSE j]}

DestsOf(dests) == {dests[j] : j \in 1..Len(dests)}

\* The server answers every request properly but those for the first attachment's url,
\* which it may answer with an error status, with a 3xx status without Location, or
\* with a connection or a body that breaks.
Unreliable == {1}

(***************************************************************************)
(* The attachment directory.  dest[d] and part[d] are what the files at    *)
(* destPath d and at "<destPath>.part" hold of a body, which is streamed   *)
(* as a head and a tail; Absent when there is no such file.  A write       *)
(* stream stays with the file it has opened: job.fd tells whether that     *)
(* file is still the "part" entry, has become the "dest" entry by a        *)
(* rename, or is an "orphan" no entry names any more.                      *)
(***************************************************************************)
Chunks == {"head", "tail"}

Absent == {"absent"}

\* The directory before a message is processed: the existing files are complete.
InitialFs(existing) ==
  [ dest |-> [d \in Dests |-> IF d \in existing THEN Chunks ELSE Absent],
    part |-> [d \in Dests |-> Absent] ]

ExistsSync(fs, d) == fs.dest[d] # Absent

\* The open write streams on the files of destPath d after the entry `from` became `to`.
Relink(jobs, d, from, to) ==
  [k \in 1..Len(jobs) |->
     IF aDests[k] = d /\ jobs[k].fd = from THEN [jobs[k] EXCEPT !.fd = to] ELSE jobs[k]]

\* fs.createWriteStream(tmpFilePath): the file is created, or truncated when it exists.
CreateWriteStream(fs, d) == [fs EXCEPT !.part[d] = {}]

\* The write stream writes a chunk of the body to the file it has open.
WriteChunk(fs, d, fd, chunk) ==
  IF fd = "part" THEN [fs EXCEPT !.part[d] = @ \cup {chunk}]
  ELSE IF fd = "dest" THEN [fs EXCEPT !.dest[d] = @ \cup {chunk}]
  ELSE fs

\* #cleanupDownload: the .part entry is removed when it exists.
CleanupDownload(disk, d) ==
  [fs |-> [disk.fs EXCEPT !.part[d] = Absent], jobs |-> Relink(disk.jobs, d, "part", "orphan")]

\* #commitDownload: lstatSync throws when the .part entry is gone; else renameSync;
\* finally #cleanupDownload.
CommitDownload(disk, d) ==
  IF disk.fs.part[d] = Absent
    THEN [ok |-> FALSE, disk |-> CleanupDownload(disk, d)]
    ELSE [ok |-> TRUE,
          disk |-> CleanupDownload(
                     [fs |-> [disk.fs EXCEPT !.dest[d] = disk.fs.part[d], !.part[d] = Absent],
                      jobs |-> Relink(Relink(disk.jobs, d, "dest", "orphan"), d, "part", "dest")],
                     d)]

(***************************************************************************)
(* #downloadMessageAttachment.  A call is "skipped", or its download is    *)
(* "queued" in attachmentDownloadLimiter, executing ("request": the        *)
(* request of line 123 is out; "unsignalled": the request of line 173 is   *)
(* out; "opened", "head": the body is streamed to the .part file; "sleep": *)
(* pausing before a retry), or the call has ended: "done", "error" (a      *)
(* non-fatal error, counted), "aborted" (AbortError thrown on), "dropped"  *)
(* (dropped by the stopped limiter).  "resolved" and "rejected": the job   *)
(* has ended in the limiter and the call that awaits it (line 432) has not *)
(* run on yet.                                                             *)
(***************************************************************************)
Executing == {"request", "unsignalled", "opened", "head", "sleep"}

Streaming == {"opened", "head"}

Fulfilled == {"skipped", "done", "error"}

\* Line 426.
SkipExistingWhatever(exists, overwrite) == exists

SkipExisting(exists, overwrite) == exists /\ ~overwrite

\* signal: whether the response being streamed came from a request bound to the signal.
Job(st) == [st |-> st, rt |-> 0, signal |-> TRUE, fd |-> "none"]

\* Line 259: the calls of a message, each run to its first await.
FanOut(fs) ==
  [j \in 1..Len(aDests) |->
     Job(IF SkipExisting(ExistsSync(fs, aDests[j]), aOverwrite) THEN "skipped" ELSE "queued")]

Skipped(jobs) == {j \in 1..Len(jobs) : jobs[j].st = "skipped"}

JobsRunning(jobs) == {j \in 1..Len(jobs) : jobs[j].st \in Executing}

\* Bottleneck starts a job while fewer than maxConcurrent are executing.
HasCapacityForOneMore(running, maxConcurrent) == running <= maxConcurrent

HasCapacity(running, maxConcurrent) == running < maxConcurrent

(***************************************************************************)
(* The message loop (lines 248-266, 281-284) from the fan-out of message m *)
(* to its next await: a message whose calls have all resolved is appended  *)
(* to the transcript and counted, and the loop goes on; after the last     *)
(* message the thread is counted and start() reports.                      *)
(***************************************************************************)
RECURSIVE MessageLoop(_, _, _, _, _)
MessageLoop(m, st, transcript, jobs, fs) ==
  IF m > NumMessages
    THEN [pc |-> "reported", msg |-> NumMessages, jobs |-> jobs, fs |-> fs,
          transcript |-> transcript,
          stats |-> [st EXCEPT !.processedThreadCount = @ + 1]]
    ELSE LET fs1 == InitialFs(aExisting)
             jobs1 == FanOut(fs1)
             st1 == [st EXCEPT !.skippedExistingAttachmentCount = @ + Cardinality(Skipped(jobs1))]
         IN IF \A j \in 1..Len(jobs1) : jobs1[j].st \in Fulfilled
              THEN MessageLoop(m + 1, [st1 EXCEPT !.processedMessageCount = @ + 1],
                               Append(transcript, m), jobs1, fs1)
              ELSE [pc |-> "await", msg |-> m, jobs |-> jobs1, fs |-> fs1,
                    transcript |-> transcript, stats |-> st1]

AttachSet(r) ==
  /\ aPc' = r.pc
  /\ aMsg' = r.msg
  /\ aJobs' = r.jobs
  /\ aFs' = r.fs
  /\ aTranscript' = r.transcript
  /\ stats' = r.stats

(***************************************************************************)
(* Lines 432-449 while start() awaits the stopped limiters (lines 109,     *)
(* 115): a job that ends then has ended for the limiter, and the call      *)
(* awaiting it counts the download or the error when it runs on.           *)
(***************************************************************************)
Awaited(jobs) ==
  [j \in 1..Len(jobs) |->
     IF jobs[j].st = aJobs[j].st THEN jobs[j]
     ELSE IF jobs[j].st = "done" THEN [jobs[j] EXCEPT !.st = "resolved"]
     ELSE IF jobs[j].st = "error" THEN [jobs[j] EXCEPT !.st = "rejected"]
     ELSE jobs[j]]

\* The loop runs on as soon as one call of the message has ended.
AttachSettleFirst(jobs, fs, st) ==
  IF aPc = "await" /\ \E j \in 1..Len(jobs) : jobs[j].st \in Fulfilled
    THEN AttachSet(MessageLoop(aMsg + 1, [st EXCEPT !.processedMessageCount = @ + 1],
                               Append(aTranscript, aMsg), jobs, fs))
    ELSE IF aPc = "await"
      THEN AttachSet([pc |-> aPc, msg |-> aMsg, jobs |-> jobs, fs |-> fs,
                      transcript |-> aTranscript, stats |-> st])
      ELSE AttachSet([pc |-> aPc, msg |-> aMsg, jobs |-> Awaited(jobs), fs |-> fs,
                      transcript |-> aTranscript, stats |-> stats])

(***************************************************************************)
(* A call of the message has ended without throwing.  When it was the last *)
(* one pending, Promise.all resolves and the loop runs on: #saveMessage,   *)
(* processedMessageCount++, #saveDownloadStatus, the next message.         *)
(***************************************************************************)
AttachSettle(jobs, fs, st) ==
  IF aPc = "await" /\ \A j \in 1..Len(jobs) : jobs[j].st \in Fulfilled
    THEN AttachSet(MessageLoop(aMsg + 1, [st EXCEPT !.processedMessageCount = @ + 1],
                               Append(aTranscript, aMsg), jobs, fs))
    ELSE IF aPc = "await"
      THEN AttachSet([pc |-> aPc, msg |-> aMsg, jobs |-> jobs, fs |-> fs,
                      transcript |-> aTranscript, stats |-> st])
      ELSE AttachSet([pc |-> aPc, msg |-> aMsg, jobs |-> Awaited(jobs), fs |-> fs,
                      transcript |-> aTranscript, stats |-> stats])

(***************************************************************************)
(* A call has thrown an AbortError.  Promise.all rejects, every catch      *)
(* block up to start() rethrows, and start() stops the limiters, which     *)
(* drops the waiting jobs (lines 94-111).                                  *)
(***************************************************************************)
AttachThrow(jobs, fs) ==
  IF aPc = "await"
    THEN LET dropped == [j \in 1..Len(jobs) |->
                           IF jobs[j].st = "queued" THEN [jobs[j] EXCEPT !.st = "dropped"]
                           ELSE jobs[j]]
         IN AttachSet([pc |-> "stopping", msg |-> aMsg, jobs |-> dropped,
                       fs |-> fs, transcript |-> aTranscript, stats |-> stats])
    ELSE AttachSet([pc |-> aPc, msg |-> aMsg, jobs |-> jobs, fs |-> fs,
                    transcript |-> aTranscript, stats |-> stats])

AttachRetryOrThrow(j, jobs, fs) ==
  IF ShouldRetry(jobs[j].rt, AttachMaxRetries)
    THEN AttachSettle([jobs EXCEPT ![j].st = "sleep", ![j].fd = "none"], fs, stats)
    ELSE AttachThrow([jobs EXCEPT ![j].st = "error", ![j].fd = "none"], fs)

\* Every failed attempt is counted as an error, the retried ones too.
AttachRetryCounted(j, jobs, fs) ==
  IF ShouldRetry(jobs[j].rt, AttachMaxRetries)
    THEN AttachSettle([jobs EXCEPT ![j].st = "sleep", ![j].fd = "none"], fs,
                      UpdateStatsOnError(stats, FALSE))
    ELSE AttachSettle([jobs EXCEPT ![j].st = "error", ![j].fd = "none"], fs,
                      UpdateStatsOnError(stats, FALSE))

\* downloadAttachment lines 145-155: the pause before a retry, or the FetcherError
\* that #downloadMessageAttachment counts (lines 444-449).
AttachRetryOrFail(j, jobs, fs) ==
  IF ShouldRetry(jobs[j].rt, AttachMaxRetries)
    THEN AttachSettle([jobs EXCEPT ![j].st = "sleep", ![j].fd = "none"], fs, stats)
    ELSE AttachSettle([jobs EXCEPT ![j].st = "error", ![j].fd = "none"], fs,
                      UpdateStatsOnError(stats, FALSE))

aSite == <<aDests, aExisting, aOverwrite, aMaxConcurrent>>

\* Line 264, #saveDownloadStatus: written right after #saveMessage with no await between,
\* the marker names the message last appended to the transcript (0: no marker).
aMarker == IF aTranscript = <<>> THEN 0 ELSE aTranscript[Len(aTranscript)]

\* start(), #process, #downloadThread up to the message loop.
AttachStart ==
  /\ aPc = "idle"
  /\ AttachSet(MessageLoop(1, stats, aTranscript, aJobs, aFs))
  /\ UNCHANGED <<aSite, aCancelled, aErrorsAtSignal>>
  /\ UNCHANGED notAttachVars

\* attachmentDownloadLimiter starts its first waiting job: downloadAttachment, line 123.
DownloadDispatch(j) ==
  /\ j \in DOMAIN aJobs
  /\ aPc = "await"
  /\ aJobs[j].st = "queued"
  /\ \A k \in 1..(j - 1) : aJobs[k].st # "queued"
  /\ HasCapacity(Cardinality(JobsRunning(aJobs)), aMaxConcurrent)
  /\ aJobs' = [aJobs EXCEPT ![j].st = "request"]
  /\ UNCHANGED <<stats, aSite, aPc, aMsg, aFs, aTranscript, aCancelled, aErrorsAtSignal>>
  /\ UNCHANGED notAttachVars

\* #fetchWithRedirect line 173: a 3xx answer without Location, fetch(request) again.
DownloadNoLocation(j) ==
  /\ j \in DOMAIN aJobs
  /\ aDests[j] \in Unreliable
  /\ aJobs[j].st = "request"
  /\ ~aCancelled
  /\ aJobs' = [aJobs EXCEPT ![j].st = "unsignalled"]
  /\ UNCHANGED <<stats, aSite, aPc, aMsg, aFs, aTranscript, aCancelled, aErrorsAtSignal>>
  /\ UNCHANGED notAttachVars

\* The request the job has out can be answered: one bound to a raised signal cannot.
Answerable(job) == job.st = "unsignalled" \/ (job.st = "request" /\ ~aCancelled)

\* Lines 125-135: the answer is OK and has a body, the pipeline opens the .part file.
DownloadResponseOK(j) ==
  /\ j \in DOMAIN aJobs
  /\ Answerable(aJobs[j])
  /\ aJobs' = [aJobs EXCEPT ![j].st = "opened", ![j].fd = "part",
                            ![j].signal = (aJobs[j].st = "request")]
  /\ aFs' = CreateWriteStream(aFs, aDests[j])
  /\ UNCHANGED <<stats, aSite, aPc, aMsg, aTranscript, aCancelled, aErrorsAtSignal>>
  /\ UNCHANGED notAttachVars

\* #assertResponseOK throws inside the try block.
DownloadResponseNotOK(j) ==
  /\ j \in DOMAIN aJobs
  /\ aDests[j] \in Unreliable
  /\ Answerable(aJobs[j])
  /\ AttachRetryOrFail(j, aJobs, aFs)
  /\ UNCHANGED <<aSite, aCancelled, aErrorsAtSignal>>
  /\ UNCHANGED notAttachVars

\* Line 123 is outside the try block: a network error ends the download at once.
DownloadRequestError(j) ==
  /\ j \in DOMAIN aJobs
  /\ aDests[j] \in Unreliable
  /\ Answerable(aJobs[j])
  /\ AttachSettle([aJobs EXCEPT ![j].st = "error"], aFs, UpdateStatsOnError(stats, FALSE))
  /\ UNCHANGED <<aSite, aCancelled, aErrorsAtSignal>>
  /\ UNCHANGED notAttachVars

\* The body arrives: a stream bound to a raised signal gets no more of it.
Flowing(job) == job.st \in Streaming /\ ~(aCancelled /\ job.signal)

\* The head of the body is written.
DownloadWrite(j) ==
  /\ j \in DOMAIN aJobs
  /\ aJobs[j].st = "opened"
  /\ Flowing(aJobs[j])
  /\ aJobs' = [aJobs EXCEPT ![j].st = "head"]
  /\ aFs' = WriteChunk(aFs, aDests[j], aJobs[j].fd, "head")
  /\ UNCHANGED <<stats, aSite, aPc, aMsg, aTranscript, aCancelled, aErrorsAtSignal>>
  /\ UNCHANGED notAttachVars

\* The tail is written, the pipeline ends, #commitDownload (lines 136, 178-186).
DownloadCommit(j) ==
  /\ j \in DOMAIN aJobs
  /\ aJobs[j].st = "head"
  /\ Flowing(aJobs[j])
  /\ LET written == [fs |-> WriteChunk(aFs, aDests[j], aJobs[j].fd, "tail"), jobs |-> aJobs]
         c == CommitDownload(written, aDests[j])
     IN IF c.ok
          THEN AttachSettle([c.disk.jobs EXCEPT ![j].st = "done", ![j].fd = "none"], c.disk.fs,
                            [stats EXCEPT !.downloadedAttachmentCount = @ + 1])
          ELSE LET d == CleanupDownload(c.disk, aDests[j])
               IN AttachRetryOrFail(j, d.jobs, d.fs)
  /\ UNCHANGED <<aSite, aCancelled, aErrorsAtSignal>>
  /\ UNCHANGED notAttachVars

\* The pipeline fails for another reason than the signal (lines 139-142).
DownloadStreamError(j) ==
  /\ j \in DOMAIN aJobs
  /\ aDests[j] \in Unreliable
  /\ Flowing(aJobs[j])
  /\ LET d == CleanupDownload([fs |-> aFs, jobs |-> aJobs], aDests[j])
     IN AttachRetryOrFail(j, d.jobs, d.fs)
  /\ UNCHANGED <<aSite, aCancelled, aErrorsAtSignal>>
  /\ UNCHANGED notAttachVars

\* The pause is over: downloadAttachment is called with rt + 1.
DownloadRetry(j) ==
  /\ j \in DOMAIN aJobs
  /\ aJobs[j].st = "sleep"
  /\ aJobs' = [aJobs EXCEPT ![j].st = "request", ![j].rt = @ + 1]
  /\ UNCHANGED <<stats, aSite, aPc, aMsg, aFs, aTranscript, aCancelled, aErrorsAtSignal>>
  /\ UNCHANGED notAttachVars

\* The raised signal ends the request or the stream bound to it in an AbortError.
DownloadAbort(j) ==
  /\ j \in DOMAIN aJobs
  /\ aCancelled
  /\ \/ aJobs[j].st = "request"
     \/ aJobs[j].st \in Streaming /\ aJobs[j].signal
  /\ LET d == IF aJobs[j].st \in Streaming
                THEN CleanupDownload([fs |-> aFs, jobs |-> aJobs], aDests[j])
                ELSE [fs |-> aFs, jobs |-> aJobs]
     IN AttachThrow([d.jobs EXCEPT ![j].st = "aborted", ![j].fd = "none"], d.fs)
  /\ UNCHANGED <<aSite, aCancelled, aErrorsAtSignal>>
  /\ UNCHANGED notAttachVars

(***************************************************************************)
(* Lines 439-449 after the awaited job has ended while the limiters were   *)
(* being stopped: the download is counted, or the error.  Nothing orders   *)
(* this after-await step and the one of start() (line 109).                *)
(***************************************************************************)
DownloadContinuation(j) ==
  /\ j \in DOMAIN aJobs
  /\ aJobs[j].st \in {"resolved", "rejected"}
  /\ aJobs' = [aJobs EXCEPT ![j].st = IF @ = "resolved" THEN "done" ELSE "error"]
  /\ stats' = IF aJobs[j].st = "resolved"
                THEN [stats EXCEPT !.downloadedAttachmentCount = @ + 1]
                ELSE UpdateStatsOnError(stats, FALSE)
  /\ UNCHANGED <<aSite, aPc, aMsg, aFs, aTranscript, aCancelled, aErrorsAtSignal>>
  /\ UNCHANGED notAttachVars

\* Bottleneck.stop: its promise resolves when no job is executing any more.
StopResolved(jobs) == JobsRunning(jobs) = {}

\* start() lines 109-126: the limiters have stopped, the summary is logged.
AttachReport ==
  /\ aPc = "stopping"
  /\ StopResolved(aJobs)
  /\ aPc' = "reported"
  /\ UNCHANGED <<stats, aSite, aMsg, aJobs, aFs, aTranscript, aCancelled, aErrorsAtSignal>>
  /\ UNCHANGED notAttachVars

\* The environment raises the AbortSignal.
AttachCancel ==
  /\ aPc = "await"
  /\ ~aCancelled
  /\ aCancelled' = TRUE
  /\ aErrorsAtSignal' = stats.errorCount
  /\ UNCHANGED <<stats, aSite, aPc, aMsg, aJobs, aFs, aTranscript>>
  /\ UNCHANGED notAttachVars

AttachIdle ==
  /\ aDests = <<>>
  /\ aExisting = {}
  /\ aOverwrite = FALSE
  /\ aMaxConcurrent = 1
  /\ aPc = "idle"
  /\ aMsg = 1
  /\ aJobs = <<>>
  /\ aFs = InitialFs({})
  /\ aTranscript = <<>>
  /\ aCancelled = FALSE
  /\ aErrorsAtSignal = 0

(***************************************************************************)
(* The filename lookups of #downloadThread (lines 203-231) and             *)
(* Fetcher.fetchFilenameByHeaders (part_004 lines 86-117).  Attachment j   *)
(* of the page has id j and index j.  Its __setAttachmentFilename call is  *)
(* "none" (the filename came inline, no call), has a HEAD request out      *)
(* ("request": bound to the signal; "unsignalled": the request line 173    *)
(* repeats without it), pauses before a retry ("sleep"), or has ended:     *)
(* "named" (a filename was returned), "unnamed" (null was returned),       *)
(* "failed" (a FetcherError was caught and logged as a warning),           *)
(* "aborted" (an AbortError was thrown on).                                *)
(***************************************************************************)
Lookups == 1..MaxLookups

LookupJob(st) == [st |-> st, rt |-> 0]

LookupPending == {"request", "unsignalled", "sleep"}

\* attachment.filename after the lookups.
HasFilename(inline, job) == inline \/ job.st = "named"

\* #getMessageAttachmentFilename.
GetMessageAttachmentFilename(j, hasFilename) ==
  IF hasFilename THEN <<"attach-", j, " - ", "filename">> ELSE <<"attach-", j, "-", j>>

\* Lines 276-284: the handler goes on to the next page of the thread or is done.
PageEnd(page) == IF page < hPages THEN "fetch" ELSE "done"

\* Promise.all resolves as soon as one of the calls has returned.
LookupAwaitAny(jobs) ==
  IF \E j \in 1..Len(jobs) : jobs[j].st = "aborted" THEN "aborted"
  ELSE IF \E j \in 1..Len(jobs) : jobs[j].st \notin LookupPending THEN "process"
  ELSE IF jobs = <<>> THEN "process"
  ELSE "lookup"

\* Line 230: Promise.all over the calls rejects when one throws and resolves when the
\* last one has returned; with no call to make (line 210) the handler goes straight on.
LookupAwait(jobs) ==
  IF \E j \in 1..Len(jobs) : jobs[j].st = "aborted" THEN "aborted"
  ELSE IF \A j \in 1..Len(jobs) : jobs[j].st \notin LookupPending THEN "process"
  ELSE "lookup"

LookupSettle(jobs) ==
  /\ hJobs' = jobs
  /\ hPc' = IF hPc = "lookup" THEN LookupAwait(jobs) ELSE hPc

\* start(), #process, #downloadThread line 169: the thread's first page is requested.
LookupBeginThread ==
  /\ hPc = "idle"
  /\ hPc' = "fetch"
  /\ UNCHANGED <<hInline, hExists, hPages, hPage, hJobs, hDls, hCancelled>>
  /\ UNCHANGED notLookupVars

\* Lines 169-230: the page is fetched and parsed; one lookup for every attachment without
\* a filename, all started at once.
LookupStart ==
  /\ hPc = "fetch"
  /\ ~hCancelled
  /\ hJobs' = [j \in 1..Len(hInline) |-> LookupJob(IF hInline[j] THEN "none" ELSE "request")]
  /\ hPc' = LookupAwait(hJobs')
  /\ UNCHANGED <<hInline, hExists, hPages, hPage, hDls, hCancelled>>
  /\ UNCHANGED notLookupVars

\* The page request, bound to the raised signal, ends in an AbortError.
LookupPageAbort ==
  /\ hPc = "fetch"
  /\ hCancelled
  /\ hPc' = "aborted"
  /\ UNCHANGED <<hInline, hExists, hPages, hPage, hJobs, hDls, hCancelled>>
  /\ UNCHANGED notLookupVars

\* #fetchWithRedirect line 173: a 3xx answer without Location, fetch(request) again.
LookupNoLocation(j) ==
  /\ j \in DOMAIN hJobs
  /\ hJobs[j].st = "request"
  /\ ~hCancelled
  /\ hJobs' = [hJobs EXCEPT ![j].st = "unsignalled"]
  /\ UNCHANGED <<hInline, hExists, hPages, hPage, hPc, hDls, hCancelled>>
  /\ UNCHANGED notLookupVars

\* The request the call has out can be answered: one bound to a raised signal cannot.
LookupAnswerable(job) == job.st = "unsignalled" \/ (job.st = "request" /\ ~hCancelled)

\* Lines 96-103 and 220: the response carries a filename or none.
LookupResponse(j, named) ==
  /\ j \in DOMAIN hJobs
  /\ LookupAnswerable(hJobs[j])
  /\ LookupSettle([hJobs EXCEPT ![j].st = IF named THEN "named" ELSE "unnamed"])
  /\ UNCHANGED <<hInline, hExists, hPages, hPage, hDls, hCancelled>>
  /\ UNCHANGED notLookupVars

\* Lines 223-228: the FetcherError of an exhausted lookup is logged as a warning.
LookupErrorCaught(job) == [job EXCEPT !.st = "failed"]

\* A request fails: fetchFilenameByHeaders pauses and retries (lines 109-112) or throws
\* a FetcherError (line 115).
LookupNetworkError(j) ==
  /\ j \in DOMAIN hJobs
  /\ LookupAnswerable(hJobs[j])
  /\ IF ShouldRetry(hJobs[j].rt, LookupMaxRetries)
       THEN LookupSettle([hJobs EXCEPT ![j].st = "sleep"])
       ELSE LookupSettle([hJobs EXCEPT ![j] = LookupErrorCaught(@)])
  /\ UNCHANGED <<hInline, hExists, hPages, hPage, hDls, hCancelled>>
  /\ UNCHANGED notLookupVars

\* The pause is over: fetchFilenameByHeaders is called with rt + 1.
LookupRetry(j) ==
  /\ j \in DOMAIN hJobs
  /\ hJobs[j].st = "sleep"
  /\ hJobs' = [hJobs EXCEPT ![j].st = "request", ![j].rt = @ + 1]
  /\ UNCHANGED <<hInline, hExists, hPages, hPage, hPc, hDls, hCancelled>>
  /\ UNCHANGED notLookupVars

\* The raised signal ends the request bound to it in an AbortError, which lines 106-108,
\* 224-226 and 270-272 rethrow: Promise.all rejects and the handler ends.
LookupAbort(j) ==
  /\ j \in DOMAIN hJobs
  /\ hCancelled
  /\ hJobs[j].st = "request"
  /\ LookupSettle([hJobs EXCEPT ![j].st = "aborted"])
  /\ UNCHANGED <<hInline, hExists, hPages, hPage, hDls, hCancelled>>
  /\ UNCHANGED notLookupVars

(***************************************************************************)
(* Lines 241-284 for the page: the message file is created and the         *)
(* messages are processed.  A download of an attachment whose file exists  *)
(* is skipped (line 426); the others are requested (the page has one       *)
(* message here): "request" and "unsignalled" as for a lookup, "done" when *)
(* the call has returned, "aborted" when it has thrown an AbortError.      *)
(***************************************************************************)
DownloadsPending == {"request", "unsignalled"}

LookupProcessPage ==
  /\ hPc = "process"
  /\ IF hExists \/ Len(hInline) = 0
       THEN /\ hPc' = PageEnd(hPage)
            /\ hPage' = IF PageEnd(hPage) = "fetch" THEN hPage + 1 ELSE hPage
            /\ hDls' = [j \in 1..Len(hInline) |-> "none"]
       ELSE /\ hPc' = "download"
            /\ hDls' = [j \in 1..Len(hInline) |-> "request"]
            /\ UNCHANGED hPage
  /\ UNCHANGED <<hInline, hExists, hPages, hJobs, hCancelled>>
  /\ UNCHANGED notLookupVars

\* Line 259: Promise.all over the downloads of the message; then the page's end.
DownloadsAwait(dls) ==
  IF \E j \in 1..Len(dls) : dls[j] = "aborted" THEN "aborted"
  ELSE IF \A j \in 1..Len(dls) : dls[j] \notin DownloadsPending THEN PageEnd(hPage)
  ELSE "download"

DownloadsSettle(dls) ==
  /\ hDls' = dls
  /\ hPc' = IF hPc = "download" THEN DownloadsAwait(dls) ELSE hPc
  /\ hPage' = IF hPc = "download" /\ DownloadsAwait(dls) = "fetch" THEN hPage + 1 ELSE hPage

\* #fetchWithRedirect line 173 in a download.
LookupDownloadNoLocation(j) ==
  /\ j \in DOMAIN hDls
  /\ hDls[j] = "request"
  /\ ~hCancelled
  /\ hDls' = [hDls EXCEPT ![j] = "unsignalled"]
  /\ UNCHANGED <<hInline, hExists, hPages, hPage, hPc, hJobs, hCancelled>>
  /\ UNCHANGED notLookupVars

\* The download ends, committed or counted as an error: its call returns.
LookupDownloadReturns(j) ==
  /\ j \in DOMAIN hDls
  /\ hDls[j] = "unsignalled" \/ (hDls[j] = "request" /\ ~hCancelled)
  /\ DownloadsSettle([hDls EXCEPT ![j] = "done"])
  /\ UNCHANGED <<hInline, hExists, hPages, hJobs, hCancelled>>
  /\ UNCHANGED notLookupVars

\* The raised signal ends the download bound to it in an AbortError.
LookupDownloadAbort(j) ==
  /\ j \in DOMAIN hDls
  /\ hCancelled
  /\ hDls[j] = "request"
  /\ DownloadsSettle([hDls EXCEPT ![j] = "aborted"])
  /\ UNCHANGED <<hInline, hExists, hPages, hJobs, hCancelled>>
  /\ UNCHANGED notLookupVars

\* The environment raises the AbortSignal while the handler awaits a request.
LookupCancel ==
  /\ hPc \in {"fetch", "lookup", "download"}
  /\ ~hCancelled
  /\ hCancelled' = TRUE
  /\ UNCHANGED <<hInline, hExists, hPages, hPage, hPc, hJobs, hDls>>
  /\ UNCHANGED notLookupVars

LookupIdle ==
  /\ hInline = <<>>
  /\ hExists = FALSE
  /\ hPages = 1
  /\ hPage = 1
  /\ hPc = "idle"
  /\ hJobs = <<>>
  /\ hDls = <<>>
  /\ hCancelled = FALSE

(***************************************************************************)
(* MessageTemplate.format (src/src/lib/templates/Message.ts): the record   *)
(* #saveMessage appends for a message.  Strings are sequences of           *)
(* characters; author and publishedAt are optional (Thread.ts lines        *)
(* 13-14): the parser leaves them undefined when the page lacks the        *)
(* attribute (part_003 lines 57, 103).                                     *)
(***************************************************************************)
Undefined == [defined |-> FALSE, str |-> <<>>]

Defined(str) == [defined |-> TRUE, str |-> str]

Repeat(c, n) == [i \in 1..n |-> c]

Max(a, b) == IF a >= b THEN a ELSE b

\* `${x}` in a template literal: an undefined value reads "undefined".
TemplateLiteral(x) ==
  IF x.defined THEN x.str ELSE <<"u", "n", "d", "e", "f", "i", "n", "e", "d">>

\* x || d
OrElse(x, d) == IF x.defined /\ x.str # <<>> THEN x.str ELSE d

Unknown == <<"[", "u", "n", "k", "n", "o", "w", "n", "]">>

\* The line '<index> [/goto/post?id=<id>] - <publishedAt>' and the line 'by <author>'.
MetadataLine(index, id, publishedAt) ==
  index \o <<" ", "[", "/", "g", "o", "t", "o", "/", "p", "o", "s", "t", "?", "i", "d", "=">>
        \o NumberToString(id) \o <<"]", " ", "-", " ">> \o publishedAt

AuthorLine(author) == <<"b", "y", " ">> \o author

\* Lines 29-33.
GetSeparator(message) ==
  LET s1 == MetadataLine(message.index, message.id, TemplateLiteral(message.publishedAt))
      s2 == AuthorLine(TemplateLiteral(message.author))
  IN Repeat("-", Max(Len(s1), Len(s2)))

\* Lines 35-48 with the templates of lines 4-25: the lines of the record up to the body,
\* then the attachment list when the message has attachments.
Format(message) ==
  <<GetSeparator(message),
    MetadataLine(message.index, message.id, OrElse(message.publishedAt, <<>>)),
    AuthorLine(OrElse(message.author, Unknown)),
    GetSeparator(message),
    <<>>,
    <<"b", "o", "d", "y">>>>
  \o (IF message.attachments # <<>>
        THEN <<<<>>, <<"*", "*", "A", "t", "t", "a", "c", "h", "m", "e", "n", "t", "s", "*", "*">>>>
             \o [i \in 1..Len(message.attachments) |->
                   NumberToString(i) \o <<":", " ">> \o message.attachments[i]]
        ELSE <<>>)

\* The messages tried: an index as the page prints it, with or without author,
\* publication time and attachments.
Authors == {Undefined, Defined(<<>>), Defined(<<"a">>), Defined(Repeat("a", MaxAuthorLen))}

PublishedAts == {Undefined, Defined(<<>>), Defined(<<"2", "0", "2", "4">>)}

Messages ==
  [index : {<<"#", "1">>, <<"#", "1", "0">>}, id : {1, 2}, author : Authors,
   publishedAt : PublishedAts, attachments : {<<>>, <<<<"f">>>>}]

\* #saveMessage line 486: the record of the message is formatted.
FormatMessage ==
  /\ mRecord = <<>>
  /\ mRecord' = Format(mMessage)
  /\ UNCHANGED mMessage
  /\ UNCHANGED notMessageVars

MessageIdle ==
  /\ mMessage = [index |-> <<"#", "1">>, id |-> 1, author |-> Undefined,
                 publishedAt |-> Undefined, attachments |-> <<>>]
  /\ mRecord = <<>>

ThreadIdle ==
  /\ tLayout = <<1>>
  /\ tContinue = FALSE
  /\ tFiles = NoFiles
  /\ tMarker = NoStatus
  /\ tPc = "idle"
  /\ tUrl = 1
  /\ tCtx = NoContext
  /\ tMsgs = <<>>
  /\ tCrashes = 0
  /\ tCut = 0
  /\ tDispatches = 0
  /\ tWrites = <<>>
  /\ tGone = 0
  /\ tChecks = 0
  /\ tWriteFailures = 0
  /\ tGood = NoStatus

ThreadInit ==
  /\ MessageIdle
  /\ LookupIdle
  /\ PathIdle
  /\ UrlIdle
  /\ FetchIdle
  /\ ForumIdle
  /\ AttachIdle
  /\ stats = ZeroStats
  /\ tLayout \in Layouts
  /\ tContinue = FALSE
  /\ tFiles = NoFiles
  /\ tMarker = NoStatus
  /\ tPc = "idle"
  /\ tUrl = 1
  /\ tCtx = NoContext
  /\ tMsgs = <<>>
  /\ tCrashes = 0
  /\ tCut = 0
  /\ tDispatches = 0
  /\ tWrites = <<>>
  /\ tGone = 0
  /\ tChecks = 0
  /\ tWriteFailures = 0
  /\ tGood = NoStatus

FetchInit ==
  /\ MessageIdle
  /\ LookupIdle
  /\ PathIdle
  /\ UrlIdle
  /\ ThreadIdle
  /\ ForumIdle
  /\ AttachIdle
  /\ stats = ZeroStats
  /\ qMaxRetries \in 0..MaxRetriesBound
  /\ qHasCookie \in BOOLEAN
  /\ qCancelled = FALSE
  /\ qPc = "idle"
  /\ qRt = 0
  /\ qUrlHost = OrigHost
  /\ qUseCookie = TRUE
  /\ qChain = <<>>
  /\ qAttempts = 0
  /\ qFailures = 0
  /\ qError = NoError
  /\ qMethod \in {"GET", "HEAD"}
  /\ qStatus = "none"

FetchNext ==
  \/ FetchHTML
  \/ \E h \in Hosts : FetchRedirect(h)
  \/ FetchNoLocation
  \/ \E ok \in BOOLEAN : FetchResponse(ok)
  \/ FetchText
  \/ FetchNetworkError
  \/ FetchRetry
  \/ FetchAbort
  \/ FetchCancel

SpecFetch == FetchInit /\ [][FetchNext]_vars

(***************************************************************************)
(* One Fetcher call against a server that may redirect without end.  Every *)
(* request is answered, every pause ends and every body is read or breaks: *)
(* a step of the call is taken whenever one is possible.                   *)
(***************************************************************************)
FetchLiveNext ==
  \/ FetchNext
  \/ \E h \in Hosts : FetchRedirectOn(h)

FetchProgress == FetchLiveNext /\ qCancelled' = qCancelled

SpecFetchLive == FetchInit /\ [][FetchLiveNext]_vars /\ WF_vars(FetchProgress)

\* A forum of one page or of the most pages, its pages empty or full.
ForumInit ==
  /\ MessageIdle
  /\ LookupIdle
  /\ PathIdle
  /\ UrlIdle
  /\ ThreadIdle
  /\ FetchIdle
  /\ AttachIdle
  /\ stats = ZeroStats
  /\ fSubs \in Sites
  /\ fPages \in {1, MaxForumPages}
  /\ fThreads \in {0, MaxThreadsPerPage}
  /\ fTarget \in {ForumTarget, InvalidTarget}
  /\ fStack = <<>>
  /\ fPc = "idle"
  /\ fReqs = [r \in ReqIds |-> FreeReq]
  /\ fCancelled = FALSE

ForumNext ==
  \/ ForumStart
  \/ \E r \in ReqIds : PageDispatch(r)
  \/ \E r \in ReqIds : PageAttemptOK(r)
  \/ \E r \in ReqIds : PageAttemptFail(r)
  \/ \E r \in ReqIds : PageRetry(r)
  \/ \E r \in ReqIds : PageAbort(r)
  \/ ForumStartCatch
  \/ ForumCancel

SpecForum == ForumInit /\ [][ForumNext]_vars

\* The sites whose forums form a tree: no forum lists itself or an ancestor.
AcyclicSites == {[f \in Forums |-> {c \in Forums : t[c] = f}] : t \in ForumTrees}

ForumLiveInit == ForumInit /\ fSubs \in AcyclicSites

(***************************************************************************)
(* What the program and the network do by themselves: the event loop runs  *)
(* every continuation that is ready, the limiter starts its waiting job,   *)
(* a pause ends, and a request that is out is answered, fails or is        *)
(* aborted.  Raising the signal is up to the user.                         *)
(***************************************************************************)
ForumProgress ==
  \/ ForumStart
  \/ \E r \in ReqIds : PageDispatch(r)
  \/ \E r \in ReqIds : PageAttemptOK(r)
  \/ \E r \in ReqIds : PageAttemptFail(r)
  \/ \E r \in ReqIds : PageRetry(r)
  \/ \E r \in ReqIds : PageAbort(r)
  \/ ForumStartCatch

SpecForumLive == ForumLiveInit /\ [][ForumNext]_vars /\ WF_vars(ForumProgress)

AttachInit ==
  /\ MessageIdle
  /\ LookupIdle
  /\ PathIdle
  /\ UrlIdle
  /\ ThreadIdle
  /\ FetchIdle
  /\ ForumIdle
  /\ stats = ZeroStats
  /\ aDests \in AttachmentLists
  /\ aExisting \in SUBSET (DestsOf(aDests) \cap {1})
  /\ aOverwrite \in {o \in BOOLEAN : o => aExisting # {}}
  \* Downloads one at a time, or as many at once as a message links.
  /\ aMaxConcurrent \in {1, MaxAttachments}
  /\ aPc = "idle"
  /\ aMsg = 1
  /\ aJobs = <<>>
  /\ aFs = InitialFs(aExisting)
  /\ aTranscript = <<>>
  /\ aCancelled = FALSE
  /\ aErrorsAtSignal = 0

AttachNext ==
  \/ AttachStart
  \/ \E j \in Dests : DownloadDispatch(j)
  \/ \E j \in Dests : DownloadNoLocation(j)
  \/ \E j \in Dests : DownloadResponseOK(j)
  \/ \E j \in Dests : DownloadResponseNotOK(j)
  \/ \E j \in Dests : DownloadRequestError(j)
  \/ \E j \in Dests : DownloadWrite(j)
  \/ \E j \in Dests : DownloadCommit(j)
  \/ \E j \in Dests : DownloadStreamError(j)
  \/ \E j \in Dests : DownloadRetry(j)
  \/ \E j \in Dests : DownloadAbort(j)
  \/ \E j \in Dests : DownloadContinuation(j)
  \/ AttachReport
  \/ AttachCancel

SpecAttach == AttachInit /\ [][AttachNext]_vars

UrlInit ==
  /\ MessageIdle
  /\ LookupIdle
  /\ PathIdle
  /\ ThreadIdle
  /\ FetchIdle
  /\ ForumIdle
  /\ AttachIdle
  /\ stats = ZeroStats
  /\ uUrl \in Urls
  /\ uType = "pending"

UrlNext == Classify

SpecClassify == UrlInit /\ [][UrlNext]_vars

PathInit ==
  /\ MessageIdle
  /\ LookupIdle
  /\ ThreadIdle
  /\ FetchIdle
  /\ ForumIdle
  /\ AttachIdle
  /\ UrlIdle
  /\ stats = ZeroStats
  /\ dThread \in ThreadPages
  /\ dCfg \in DirStructures
  /\ dPath = <<>>

PathNext == ResolvePath

SpecPath == PathInit /\ [][PathNext]_vars

LookupInit ==
  /\ MessageIdle
  /\ ThreadIdle
  /\ FetchIdle
  /\ ForumIdle
  /\ AttachIdle
  /\ UrlIdle
  /\ PathIdle
  /\ stats = ZeroStats
  /\ hInline \in UNION {[1..n -> BOOLEAN] : n \in 0..MaxLookups}
  /\ hExists \in BOOLEAN
  /\ hPages \in 1..MaxPages
  /\ hPage = 1
  /\ hPc = "idle"
  /\ hJobs = <<>>
  /\ hDls = <<>>
  /\ hCancelled = FALSE

MessageInit ==
  /\ LookupIdle
  /\ ThreadIdle
  /\ FetchIdle
  /\ ForumIdle
  /\ AttachIdle
  /\ UrlIdle
  /\ PathIdle
  /\ stats = ZeroStats
  /\ mMessage \in Messages
  /\ mRecord = <<>>

MessageNext == FormatMessage

SpecMessage == MessageInit /\ [][MessageNext]_vars

LookupNext ==
  \/ LookupBeginThread
  \/ LookupStart
  \/ LookupPageAbort
  \/ \E j \in Lookups : LookupNoLocation(j)
  \/ \E j \in Lookups : \E named \in BOOLEAN : LookupResponse(j, named)
  \/ \E j \in Lookups : LookupNetworkError(j)
  \/ \E j \in Lookups : LookupRetry(j)
  \/ \E j \in Lookups : LookupAbort(j)
  \/ LookupProcessPage
  \/ \E j \in Lookups : LookupDownloadNoLocation(j)
  \/ \E j \in Lookups : LookupDownloadReturns(j)
  \/ \E j \in Lookups : LookupDownloadAbort(j)
  \/ LookupCancel

SpecLookup == LookupInit /\ [][LookupNext]_vars

\* The thread handler where the marker file is always written and the thread stays as
\* it is on the server.
ThreadNext ==
  \/ \E c \in BOOLEAN : ThreadStart(c)
  \/ \E ok \in BOOLEAN : ThreadFetchPage(ok)
  \/ ThreadCreateMessageFile
  \/ ThreadAttachmentsSettled
  \/ ThreadSaveMessage
  \/ ThreadSaveDownloadStatus(TRUE, FALSE)
  \/ ThreadNextPage
  \/ ThreadDispatchAgain
  \/ ThreadCrash
  \/ \E n \in 1..(MaxPages * MaxPageLen) : ThreadCutBack(n)

SpecThread == ThreadInit /\ [][ThreadNext]_vars

\* The thread handler where a write of the marker file may fail and the message the
\* marker names may be deleted between two runs.
ThreadFaultsNext ==
  \/ \E c \in BOOLEAN : ThreadStart(c)
  \/ \E ok \in BOOLEAN : ThreadFetchPage(ok)
  \/ ThreadCreateMessageFile
  \/ ThreadAttachmentsSettled
  \/ ThreadSaveMessage
  \/ \E ok, truncated \in BOOLEAN : ThreadSaveDownloadStatus(ok, truncated)
  \/ ThreadNextPage
  \/ ThreadCrash
  \/ ThreadModerate

SpecThreadFaults == ThreadInit /\ [][ThreadFaultsNext]_vars

(***************************************************************************)
(* C1  Resume idempotence: when a thread was crawled to completion, the    *)
(* output cut back to its first N messages with the marker naming message  *)
(* N and its page, and the crawl re-run with resume enabled to the         *)
(* thread's end, every page's transcript is the one a single uninterrupted *)
(* run writes: header, then each message of the page once, in page order.  *)
(***************************************************************************)
ResumeIdempotence ==
  (tPc = "done" /\ tCut # 0 /\ tCrashes = 0) => tFiles = FullFiles(tLayout)

\* A resumed run that ended after appending the messages behind a cut inside the thread.
ResumeIdempotenceWitness ==
  /\ tPc = "done" /\ tCrashes = 0
  /\ tCut # 0 /\ tCut < TotalMessages(tLayout)
  /\ tCtx.continued
  /\ stats.processedMessageCount = TotalMessages(tLayout) - tCut

(***************************************************************************)
(* C2  Crash-safe resume: whenever thread handling reaches the thread's    *)
(* end, also in a run with resume enabled that follows a crash at any      *)
(* step, the transcript holds each message of the thread exactly once.     *)
(***************************************************************************)
CrashSafeResume ==
  tPc = "done" =>
    \A p \in 1..Len(tLayout) :
      \A m \in 1..TotalMessages(tLayout) :
        Count(tFiles[p], m) = (IF PageOf(tLayout, m) = p THEN 1 ELSE 0)

(***************************************************************************)
(* C9  Cookie confinement: in the redirect chain of an attempt, a request  *)
(* carries the cookie only if it and every request before it went to the   *)
(* host of the original request.                                           *)
(***************************************************************************)
CookieConfinement ==
  \A i \in 1..Len(qChain) :
    qChain[i].cookie => \A j \in 1..i : qChain[j].host = OrigHost

(***************************************************************************)
(* C10  Bounded retry (as amended): a fetchHTML call starts at most        *)
(* maxRetries + 1 attempts, returns at its first successful attempt, and   *)
(* throws a non-fatal FetcherError only after maxRetries + 1 failed        *)
(* attempts; the error counts maxRetries retries, and its message carries  *)
(* the count exactly when maxRetries > 0.                                  *)
(***************************************************************************)
BoundedRetryCore ==
  /\ qAttempts <= qMaxRetries + 1
  /\ qPc = "returned" => qFailures = qAttempts - 1
  /\ qError.kind = "FetcherError" <=> qPc = "failed"
  /\ qPc = "failed" =>
       /\ qFailures = qMaxRetries + 1
       /\ qAttempts = qMaxRetries + 1
       /\ ~qError.fatal
       /\ qError.retried = qMaxRetries

BoundedRetry ==
  /\ BoundedRetryCore
  /\ qPc = "failed" => (qError.annotated <=> qMaxRetries > 0)

\* A call that failed after using up a retry budget of at least one.
BoundedRetryWitness ==
  qPc = "failed" /\ qMaxRetries > 0 /\ qFailures = qMaxRetries + 1 /\ qError.annotated

\* C10 as stated: every FetcherError thrown is annotated with the retry count.
BoundedRetryAlwaysAnnotated ==
  /\ BoundedRetryCore
  /\ qPc = "failed" => qError.annotated

(***************************************************************************)
(* C3  Page fetches are serialized: in every state of a crawl at most one  *)
(* page request, retries and pauses between them included, is in flight.   *)
(***************************************************************************)
PageFetchesSerialized == Cardinality(InFlight(fReqs)) <= 1

\* A thread's page is being fetched again after a failed attempt, inside a subforum.
PageFetchesSerializedWitness ==
  /\ Len(fStack) >= 3
  /\ Top(fStack).kind = "thread"
  /\ \E r \in ReqIds : fReqs[r].st = "request" /\ fReqs[r].rt > 0

(***************************************************************************)
(* C7  Forum recursion terminates on cyclic data: no forum is entered      *)
(* while a call for the same forum is still pending, which is what a       *)
(* visited set of forum ids ensures and what bounds the recursion by the   *)
(* number of forums.                                                       *)
(***************************************************************************)
ForumNotReentered ==
  \A i, j \in 1..Len(fStack) :
    (i # j /\ fStack[i].kind = "forum" /\ fStack[j].kind = "forum")
      => fStack[i].id # fStack[j].id

(***************************************************************************)
(* C4  Attachment concurrency bound: at most maxConcurrent downloads are   *)
(* executing at any instant, a download pausing between two attempts       *)
(* counted among them, however many attachments a message submits.         *)
(***************************************************************************)
AttachmentConcurrencyBound == Cardinality(JobsRunning(aJobs)) <= aMaxConcurrent

\* maxConcurrent + 1 attachments submitted: all slots taken, one by a pausing
\* download, and a download waiting in the limiter.
AttachmentConcurrencyBoundWitness ==
  /\ Len(aDests) = aMaxConcurrent + 1
  /\ Cardinality(JobsRunning(aJobs)) = aMaxConcurrent
  /\ \E j \in DOMAIN aJobs : aJobs[j].st = "sleep"
  /\ \E j \in DOMAIN aJobs : aJobs[j].st = "queued"

(***************************************************************************)
(* C5  Cancellation stops all commits: in no step taken after the signal   *)
(* was raised is an attachment renamed into its final path (which is what  *)
(* counts it as downloaded) or a record appended to the transcript.        *)
(***************************************************************************)
CancellationStopsCommits ==
  [][aCancelled => /\ aTranscript' = aTranscript
                   /\ stats'.downloadedAttachmentCount = stats.downloadedAttachmentCount]_vars

(***************************************************************************)
(* C6  Attachment idempotence: with overwrite disabled an attachment whose *)
(* final file exists is skipped without a request and counted as skipped,  *)
(* never as downloaded; with overwrite enabled no attachment is skipped.   *)
(***************************************************************************)
FannedOut == IF aPc = "idle" THEN 0 ELSE aMsg

ExistingAttachments == {j \in 1..Len(aDests) : aDests[j] \in aExisting}

AttachmentIdempotence ==
  /\ \A j \in DOMAIN aJobs :
       aJobs[j].st = "skipped" <=> (j \in ExistingAttachments /\ ~aOverwrite)
  /\ stats.skippedExistingAttachmentCount =
       (IF aOverwrite THEN 0 ELSE FannedOut * Cardinality(ExistingAttachments))
  /\ stats.downloadedAttachmentCount <=
       FannedOut * (Len(aDests) - (IF aOverwrite THEN 0 ELSE Cardinality(ExistingAttachments)))

\* A message is done whose first attachment existed and was skipped and whose
\* second attachment was downloaded.
AttachmentIdempotenceWitness ==
  /\ ~aOverwrite /\ ExistingAttachments # {} /\ Len(aDests) > Cardinality(ExistingAttachments)
  /\ aPc = "reported" /\ ~aCancelled
  /\ stats.skippedExistingAttachmentCount = NumMessages * Cardinality(ExistingAttachments)
  /\ stats.downloadedAttachmentCount = NumMessages * (Len(aDests) - Cardinality(ExistingAttachments))

(***************************************************************************)
(* C8  Atomic attachment commit: a final path that exists holds a complete *)
(* body, and a .part file exists only while a download streams to it.      *)
(***************************************************************************)
AtomicAttachmentCommit ==
  /\ \A d \in Dests : aFs.dest[d] # Absent => aFs.dest[d] = Chunks
  /\ \A d \in Dests : aFs.part[d] # Absent =>
       \E j \in DOMAIN aJobs : aDests[j] = d /\ aJobs[j].st \in Streaming

(***************************************************************************)
(* C11  A non-2xx page response is a failed attempt: fetchHTML returns a   *)
(* page's HTML to the caller, and so to the parser, only from a response   *)
(* with a 2xx status.                                                      *)
(***************************************************************************)
NonOKResponseNotParsed == (qMethod = "GET" /\ qPc = "returned") => qStatus = "ok"

(***************************************************************************)
(* C12  Attachment downloads follow the retry policy of page fetches: a    *)
(* download ends in a counted, non-fatal error only after its retry budget *)
(* is used up, whatever made its attempts fail.                            *)
(***************************************************************************)
DownloadFailsAfterRetries ==
  \A j \in DOMAIN aJobs : aJobs[j].st = "error" => aJobs[j].rt = AttachMaxRetries

MarkerMonotone ==
  \A i \in 1..Len(tWrites) : \A j \in i..Len(tWrites) : tWrites[i] <= tWrites[j]

(***************************************************************************)
(* C15  Marker means fully persisted: when the marker names a message (its *)
(* record is then in the transcript), every attachment of that message is  *)
(* complete at its final path.  The directory shows the files of message   *)
(* aMsg.                                                                   *)
(***************************************************************************)
MarkerMeansPersisted ==
  (aMarker # 0 /\ aMarker = aMsg) =>
     /\ Count(aTranscript, aMarker) >= 1
     /\ \A d \in DestsOf(aDests) : aFs.dest[d] = Chunks

\* The calls of the message that have ended without throwing.
Settled(jobs) == {j \in 1..Len(jobs) : jobs[j].st \in Fulfilled}

(***************************************************************************)
(* C16  Attachment errors are isolated: every attachment call that has     *)
(* ended without throwing was counted exactly once, as an error, a         *)
(* download or a skip; whatever failed, the messages before the current    *)
(* one have their transcript records, and a crawl that ends without an     *)
(* abort has settled every attachment of the last message and appended and *)
(* counted every message.                                                  *)
(***************************************************************************)
AttachmentErrorsIsolated ==
  /\ aPc # "idle" =>
       stats.errorCount + stats.downloadedAttachmentCount + stats.skippedExistingAttachmentCount
         = (aMsg - 1) * Len(aDests) + Cardinality(Settled(aJobs))
  /\ aPc = "await" => aTranscript = [m \in 1..(aMsg - 1) |-> m]
  /\ (aPc = "reported" /\ \A j \in 1..Len(aJobs) : aJobs[j].st # "aborted") =>
       /\ Settled(aJobs) = 1..Len(aDests)
       /\ aTranscript = [m \in 1..NumMessages |-> m]
       /\ stats.processedMessageCount = NumMessages

\* The first attachment of the last message failed after its retries, the second was
\* downloaded after that, and the crawl ran to its end with every message appended.
AttachmentErrorsIsolatedWitness ==
  /\ aPc = "reported"
  /\ Len(aJobs) = 2
  /\ aJobs[1].st = "error" /\ aJobs[1].rt = AttachMaxRetries
  /\ aJobs[2].st = "done"
  /\ aMaxConcurrent = 1
  /\ stats.errorCount >= 1
  /\ aTranscript = [m \in 1..NumMessages |-> m]

\* The step in which the #downloadThread call on top of the pending calls ends on a
\* non-fatal error: the thread is not counted and the error is not thrown on.
ThreadFailedStep ==
  /\ fPc = "running"
  /\ fStack # <<>>
  /\ Top(fStack).kind = "thread"
  /\ fStack' # fStack
  /\ fPc' # "unwound"
  /\ stats'.processedThreadCount = stats.processedThreadCount

(***************************************************************************)
(* C17  Thread errors are isolated inside a forum: when the handling of a  *)
(* thread a forum page lists fails non-fatally, errorCount grows by one    *)
(* and the forum goes on as after a handled thread: to the next thread of  *)
(* the page, else to the forum's next page, else to its first subforum,    *)
(* else the forum is counted.                                              *)
(***************************************************************************)
ThreadErrorsIsolated ==
  [][ThreadFailedStep =>
       LET n == Len(fStack)
           parent == fStack[n - 1]
       IN /\ stats'.errorCount = stats.errorCount + 1
          /\ IF parent.i < fThreads
               THEN /\ Len(fStack') = n
                    /\ Top(fStack').kind = "thread" /\ Top(fStack').id = parent.id
                    /\ fStack'[n - 1] = [parent EXCEPT !.i = @ + 1]
             ELSE IF parent.page < fPages
               THEN /\ Len(fStack') = n - 1
                    /\ Top(fStack') = [ForumFrame(parent.id, parent.page + 1) EXCEPT !.pc = "await"]
             ELSE IF fSubs[parent.id] # {}
               THEN \/ /\ Len(fStack') = n
                       /\ fStack'[n - 1].id = parent.id /\ fStack'[n - 1].pc = "subforums"
                       /\ Top(fStack') = [ForumFrame(Subforums(parent.id)[1], 1) EXCEPT !.pc = "await"]
                    \/ fStack' # <<>> /\ Top(fStack').pc = "overflow"
             ELSE stats'.processedForumCount >= stats.processedForumCount + 1]_vars

\* A crawl of two forums of two pages of two threads ended with every forum page
\* fetched, one thread failed and the seven others handled.
ThreadErrorsIsolatedWitness ==
  /\ fPc = "reported" /\ ~fCancelled
  /\ fThreads = 2 /\ fPages = 2
  /\ fSubs = [f \in Forums |-> IF f = 1 THEN Forums \ {1} ELSE {}]
  /\ stats.processedForumCount = NumForums
  /\ stats.errorCount = 1
  /\ stats.processedThreadCount = NumForums * 2 * 2 - 1

\* The step in which the #downloadForum call on top of the pending calls has its page
\* fetch end on a non-fatal error.
ForumPageFailedStep ==
  /\ fPc = "running"
  /\ fStack # <<>>
  /\ Top(fStack).kind = "forum" /\ Top(fStack).pc = "await"
  /\ fPc' # "unwound"
  /\ stats'.errorCount = stats.errorCount + 1

(***************************************************************************)
(* C18  Page errors do not end a page sequence: when the fetch of a forum  *)
(* listing page fails non-fatally, the forum goes on to its next page, and *)
(* after its last page to its subforums.                                   *)
(***************************************************************************)
PageErrorsDoNotEndSequence ==
  [][ForumPageFailedStep =>
       LET n == Len(fStack)
           top == Top(fStack)
       IN IF top.page < fPages
            THEN /\ Len(fStack') = n
                 /\ Top(fStack') = [ForumFrame(top.id, top.page + 1) EXCEPT !.pc = "await"]
          ELSE IF fSubs[top.id] # {}
            THEN \/ /\ Len(fStack') = n + 1
                    /\ Top(fStack') = [ForumFrame(Subforums(top.id)[1], 1) EXCEPT !.pc = "await"]
                 \/ fStack' # <<>> /\ Top(fStack').pc = "overflow"
          ELSE TRUE]_vars

\* The step in which the page fetch the pending calls await ends in the AbortError.
FatalRaisedStep ==
  /\ fPc = "running"
  /\ fCancelled
  /\ \E r \in ReqIds : fReqs[r].st = "request" /\ fReqs[r].attached /\ fReqs'[r].st = "free"

\* No page fetch is scheduled or started and no thread, forum or message is counted.
NothingFurtherStep ==
  /\ \A r \in ReqIds : fReqs'[r] = fReqs[r] \/ fReqs'[r].st = "free"
  /\ stats'.processedThreadCount = stats.processedThreadCount
  /\ stats'.processedForumCount = stats.processedForumCount
  /\ stats'.processedMessageCount = stats.processedMessageCount

(***************************************************************************)
(* C19  Fatal errors unwind everything: the cancellation error raised in a *)
(* handler abandons every pending call at once, and from then on no page   *)
(* fetch is started, no thread, forum page or subforum is dispatched and   *)
(* no processed-thread, -forum or -message counter grows.                  *)
(***************************************************************************)
FatalErrorsUnwind ==
  [][/\ FatalRaisedStep => (fStack' = <<>> /\ fPc' = "unwound" /\ NothingFurtherStep)
     /\ fPc \in {"unwound", "reported"} => (fStack' = <<>> /\ NothingFurtherStep)]_vars

\* An aborted crawl has reported with a listed thread, and the forum, left unhandled.
FatalErrorsUnwindWitness ==
  /\ fPc = "reported" /\ fCancelled
  /\ fStack = <<>>
  /\ fThreads = 2
  /\ stats.processedThreadCount = 1
  /\ stats.processedForumCount = 0
  /\ stats.errorCount = 0

(***************************************************************************)
(* C20  Cancellation is not an error: a crawl that ended by cancellation   *)
(* (start() caught the AbortError of an attachment call) reports the       *)
(* errorCount it had when the signal was raised.                           *)
(***************************************************************************)
CancellationNotAnError ==
  (aPc = "reported" /\ \E j \in 1..Len(aJobs) : aJobs[j].st = "aborted") =>
     stats.errorCount = aErrorsAtSignal

\* The path has a segment "threads" directly followed by a "<slug>.<digits>" segment.
HasThreadSegment(path) ==
  \E i \in 1..(Len(path) - 1) : path[i] = "threads" /\ SlugId(path[i + 1]) # 0

(***************************************************************************)
(* C23  Classification is stable for thread URLs: a parseable URL whose    *)
(* path has a /threads/<slug>.<id> segment is classified as a thread,      *)
(* whatever other segments it has.                                         *)
(***************************************************************************)
ThreadClassificationStable ==
  (uType # "pending" /\ uUrl.valid /\ HasThreadSegment(uUrl.path)) => uType = "thread"

(***************************************************************************)
(* C24  An unparseable target URL is fatal at entry: whatever the string   *)
(* looks like, no page fetch is scheduled, no forum, thread or message is  *)
(* processed, and the crawl reports with the error counted.                *)
(***************************************************************************)
InvalidTargetFatalAtEntry ==
  ~fTarget.valid =>
     /\ fPc \in {"idle", "threw", "reported"}
     /\ fStack = <<>>
     /\ \A r \in ReqIds : fReqs[r] = FreeReq
     /\ stats.processedForumCount = 0
     /\ stats.processedThreadCount = 0
     /\ stats.processedMessageCount = 0
     /\ stats.errorCount = (IF fPc = "reported" THEN 1 ELSE 0)

\* The crawl of a target that is no URL has reported.
InvalidTargetFatalAtEntryWitness ==
  /\ fTarget = InvalidTarget
  /\ fPc = "reported"
  /\ stats.errorCount = 1

TitledSegment(title, id) == SanitizeFilename(title \o <<".">> \o NumberToString(id))

(***************************************************************************)
(* C22  Directory resolution: with the site, all-ancestors and thread      *)
(* switches on, the path is the output root, the site crumb's title, one   *)
(* segment <title>.<id> per remaining breadcrumb in order, and the thread  *)
(* segment <title>.<id>; with every switch off it is the output root.      *)
(***************************************************************************)
DirectoryResolution ==
  (dPath # <<>> /\ Len(dThread.breadcrumbs) >= 1) =>
     /\ (dCfg.site /\ dCfg.parentForumsAndSections = "all" /\ dCfg.thread) =>
           dPath = <<OutDir, SanitizeFilename(dThread.breadcrumbs[1].title)>>
                     \o [i \in 1..(Len(dThread.breadcrumbs) - 1) |->
                           TitledSegment(dThread.breadcrumbs[i + 1].title,
                                         dThread.breadcrumbs[i + 1].id)]
                     \o <<TitledSegment(dThread.title, dThread.id)>>
     /\ (~dCfg.site /\ dCfg.parentForumsAndSections = "none" /\ ~dCfg.thread) =>
           dPath = <<OutDir>>

\* A message all of whose attachment calls return at line 429.
AllSkipped == \A j \in 1..Len(aDests) : SkipExisting(aDests[j] \in aExisting, aOverwrite)

\* The attachment calls of the current message that are still pending.
Pending(jobs) == {j \in 1..Len(jobs) : jobs[j].st \notin Fulfilled}

ResumeDropsPersisted ==
  (tCtx.continueFromMessageID # 0 /\ tPc \in {"create", "attach", "save", "status"}) =>
     \A i \in 1..Len(tMsgs) : tMsgs[i] > tCtx.continueFromMessageID

\* The handler calls #checkPreviousDownload in this step.
ResumeCheckStep == tPc = "fetch" /\ tChecks' = tChecks + 1

(***************************************************************************)
(* C27  Resume check happens once per thread run: #checkPreviousDownload   *)
(* is called at most once after #process was given the thread's url, on    *)
(* the first page the run fetched, with resume enabled and without         *)
(* context; a record it finds re-dispatches the handler to the record's    *)
(* url in continuation of the record's messageID, in the same step and     *)
(* with the files and the marker untouched; a continuation starts only in  *)
(* that step; a page fetched with a context never calls it.                *)
(***************************************************************************)
ResumeCheckOnce ==
  [][ /\ tChecks' <= 1
      /\ ResumeCheckStep =>
           /\ tChecks = 0 /\ tUrl = 1 /\ tCtx = NoContext /\ tContinue
           /\ tFiles' = tFiles /\ tMarker' = tMarker
           /\ (tMarker # NoStatus /\ ~InvalidFormat(tMarker)) =>
                /\ tPc' = "fetch"
                /\ tUrl' = tMarker.url
                /\ tCtx' = [continued |-> TRUE, continueFromMessageID |-> tMarker.messageID]
      /\ (tCtx'.continueFromMessageID # 0 /\ tCtx' # tCtx) => ResumeCheckStep
      /\ (tPc = "fetch" /\ tCtx.continued) => tChecks' = tChecks
    ]_vars

\* The second page of a run that resumed on the first page is being handled: the one
\* check of the run was made before the re-dispatch.
ResumeCheckOnceWitness ==
  /\ tPc = "attach"
  /\ tUrl = 2
  /\ tCut # 0 /\ tCrashes = 0
  /\ tMarker.url = 1
  /\ tCtx = [continued |-> TRUE, continueFromMessageID |-> 0]
  /\ tChecks = 1

\* The resume check of this step throws.
CorruptCheckStep == ResumeCheckStep /\ InvalidFormat(tMarker)

(***************************************************************************)
(* C28  Corrupt resume state is non-fatal and local: a resume check that   *)
(* throws ends neither the handler nor the crawl and counts no error; the  *)
(* handler goes on with the page it fetched, all its messages, no          *)
(* continuation and a transcript file written anew; config.continue and    *)
(* the marker file stay as they are; and the transcript of a page handled  *)
(* without a saved messageID is, at the page's end, the header and every   *)
(* message of the page.                                                    *)
(***************************************************************************)
CorruptMarkerNonFatal ==
  [][ /\ CorruptCheckStep =>
           /\ tPc' = "create"
           /\ stats' = stats
           /\ tUrl' = tUrl
           /\ tMsgs' = ServedMessages(tUrl)
           /\ tCtx' = NoContext
           /\ OverwriteMessageFile(tCtx')
           /\ tContinue' = tContinue
           /\ tMarker' = tMarker
      /\ (tPc' = "next" /\ tCtx'.continueFromMessageID = 0) =>
           tFiles'[tUrl'] = <<Header>> \o ServedMessages(tUrl')
    ]_vars

\* The resume check of a re-run has thrown on a truncated marker file, and the first
\* page is about to be downloaded in full over the transcript the earlier run left.
CorruptMarkerNonFatalWitness ==
  /\ tPc = "create"
  /\ InvalidFormat(tMarker)
  /\ tChecks = 1
  /\ tCrashes >= 1
  /\ tCtx = NoContext
  /\ tFiles[tUrl] # <<>>
  /\ Len(tMsgs) = tLayout[tUrl]
  /\ stats.errorCount = 0

\* The write of the marker file fails in this step.
FailedWriteStep == tPc = "status" /\ tWriteFailures' = tWriteFailures + 1

(***************************************************************************)
(* C29  A failed marker write is non-fatal and loses no data: the step in  *)
(* which the write fails leaves the transcript files as they are, counts   *)
(* no error and goes on with the next message or the page's end; the       *)
(* marker file is always absent, unreadable or the record last written     *)
(* without failure, and a run that resumes continues from that record.     *)
(***************************************************************************)
FailedMarkerWriteNonFatal ==
  [][ /\ FailedWriteStep =>
           /\ tFiles' = tFiles
           /\ stats' = stats
           /\ tMsgs' = Tail(tMsgs)
           /\ tPc' = LoopOn(tMsgs)
           /\ tGood' = tGood
           /\ tMarker' \in {tMarker, CorruptStatus}
      /\ tMarker' \in {NoStatus, CorruptStatus, tGood'}
      /\ (tCtx'.continueFromMessageID # 0 /\ tCtx' # tCtx) =>
           /\ tCtx'.continueFromMessageID = tGood.messageID
           /\ tUrl' = tGood.url
    ]_vars

\* After a failed write for its second message a run was interrupted; the re-run has
\* resumed from the first message, the record written last, and is about to process the
\* second message, whose record the transcript holds.
FailedMarkerWriteNonFatalWitness ==
  /\ tPc = "attach"
  /\ tWriteFailures >= 1
  /\ tCrashes >= 1
  /\ tGood = [url |-> 1, messageID |-> 1]
  /\ tCtx.continueFromMessageID = 1
  /\ tMsgs # <<>> /\ Head(tMsgs) = 2
  /\ Count(tFiles[tUrl], 2) = 1

(***************************************************************************)
(* C30  A failed filename lookup is downgraded: once the lookups of a page *)
(* are over and the page is processed, an attachment whose lookup failed   *)
(* after its retries has no filename and is saved as attach-<id>-<index>;  *)
(* and when the signal was raised while a lookup was pending, the handler  *)
(* does not run to the thread's end.                                       *)
(***************************************************************************)
FailedLookupDowngraded ==
  /\ hPc \in {"process", "done"} =>
       \A j \in 1..Len(hJobs) :
         hJobs[j].st = "failed" =>
           /\ hJobs[j].rt = LookupMaxRetries
           /\ GetMessageAttachmentFilename(j, HasFilename(hInline[j], hJobs[j]))
                = <<"attach-", j, "-", j>>
  /\ hCancelled => hPc # "done"

(***************************************************************************)
(* C31: thread completion is counted exactly once.  processedThreadCount   *)
(* changes within a run only by one, and only in the step in which the     *)
(* handler leaves a parsed page that has no nextURL; a handler that ends   *)
(* on a page it could not fetch or parse leaves the counter as it was; the *)
(* re-dispatch of the resume check changes nothing; so after every         *)
(* dispatch of the thread's url that has returned, the counter is at most  *)
(* the number of dispatches, and with one dispatch it is 1 when the last   *)
(* page was parsed and 0 otherwise.                                        *)
(***************************************************************************)
ThreadCountedOnce ==
  /\ [](tPc \in {"fetch", "create", "attach", "save", "status", "next", "done", "failed"} =>
          /\ stats.processedThreadCount <= tDispatches
          /\ (tDispatches = 1 /\ tPc # "done") => stats.processedThreadCount = 0
          /\ (tDispatches = 1 /\ tPc = "done") => stats.processedThreadCount = 1
          /\ tPc = "done" => ~HasNextURL(tLayout, tUrl) /\ stats.processedThreadCount >= 1)
  /\ [][ /\ (tPc' = "done" /\ tPc # "done") <=>
              (tPc = "next" /\ ~HasNextURL(tLayout, tUrl) /\ tPc' # "crashed")
         /\ (tPc' = "done" /\ tPc # "done") =>
              stats'.processedThreadCount = stats.processedThreadCount + 1
         /\ stats'.processedThreadCount # stats.processedThreadCount =>
              (tPc' = "done" /\ tPc = "next") \/ tPc \in {"idle", "crashed", "cut"}
         /\ tPc' = "failed" => stats'.processedThreadCount = stats.processedThreadCount
       ]_vars

\* A resumed run whose resume check re-dispatched has ended, the thread counted once.
ThreadCountedOnceWitness ==
  /\ tPc = "done"
  /\ tCrashes = 1
  /\ tCtx.continued /\ tCtx.continueFromMessageID # 0
  /\ stats.processedThreadCount = 1

\* The pending calls are ordered as lines 302-332 order them: a call below another one
\* is a forum call on its last page, past its threads, that has entered a subforum; a
\* thread call is the innermost one.
SubforumsAfterThreads ==
  \A i \in 1..Len(fStack) :
    /\ (i < Len(fStack) /\ fStack[i + 1].kind = "forum") =>
         /\ fStack[i].kind = "forum"
         /\ fStack[i].pc = "subforums"
         /\ fStack[i].page = fPages
         /\ fStack[i].i >= 1
         /\ fStack[i + 1].id = Subforums(fStack[i].id)[fStack[i].i]
    /\ (i < Len(fStack) /\ fStack[i + 1].kind = "thread") =>
         fStack[i].kind = "forum" /\ fStack[i].pc = "threads"
    /\ fStack[i].kind = "thread" => i = Len(fStack)

(***************************************************************************)
(* C32: forum ordering.  A subforum is entered only by a forum call that   *)
(* stands on its last listing page with all threads handled, one subforum  *)
(* and one thread at a time; and in a crawl that was not cancelled every   *)
(* forum of the site has been counted exactly once when start() reports.   *)
(***************************************************************************)
ForumOrdering ==
  /\ SubforumsAfterThreads
  /\ (fPc = "reported" /\ ~fCancelled /\ fTarget.valid) => stats.processedForumCount = NumForums

(***************************************************************************)
(* C33: queues are stopped before the report.  When start() reports, no    *)
(* download waits in the limiter and none is executing, and no step after  *)
(* the report changes a counter, a file of the attachment directory or the *)
(* transcript.                                                             *)
(***************************************************************************)
QueuesStoppedBeforeReport ==
  /\ [](aPc = "reported" =>
          \A j \in DOMAIN aJobs : aJobs[j].st # "queued" /\ aJobs[j].st \notin Executing)
  /\ [][aPc = "reported" => stats' = stats /\ aFs' = aFs /\ aTranscript' = aTranscript]_vars

(***************************************************************************)
(* C34: transcript separator width.  The separator line of a record, above *)
(* and below the two lines, is as long as the longer of the metadata line  *)
(* and the author line written in the record, also for a message without   *)
(* author or without publication time.                                     *)
(***************************************************************************)
SeparatorWidth ==
  mRecord # <<>> =>
    /\ Len(mRecord[1]) = Max(Len(mRecord[2]), Len(mRecord[3]))
    /\ mRecord[4] = mRecord[1]
    /\ \A i \in 1..Len(mRecord[1]) : mRecord[1][i] = "-"

\* The #downloadMessageAttachment calls that have returned so far in a crawl: those of
\* the messages processed before the current one, and the ended ones of the current.
CallsReturned ==
  IF aPc = "idle" THEN 0
  ELSE (aMsg - 1) * Len(aDests)
       + Cardinality({j \in DOMAIN aJobs : aJobs[j].st \in Fulfilled})

(***************************************************************************)
(* C35: attachment outcomes partition the counters.  While the crawl is    *)
(* not cancelled, downloadedAttachmentCount, skippedExistingAttachmentCount *)
(* and errorCount together count every attachment call that has returned   *)
(* exactly once: a skipped call as skipped, a committed download as         *)
(* downloaded whatever attempts it took, a failed one as an error; when     *)
(* the crawl reports, that is every attachment of every message.            *)
(***************************************************************************)
AttachmentOutcomesPartition ==
  ~aCancelled =>
    /\ stats.downloadedAttachmentCount + stats.skippedExistingAttachmentCount
         + stats.errorCount = CallsReturned
    /\ aPc = "reported" => CallsReturned = NumMessages * Len(aDests)
    /\ aPc \in {"await", "reported"} =>
         stats.skippedExistingAttachmentCount = aMsg * Cardinality(Skipped(aJobs))

\* An uncancelled crawl has reported; an attachment of the last message was downloaded
\* on a retry and a download of an earlier message has failed.
AttachmentOutcomesPartitionWitness ==
  /\ aPc = "reported"
  /\ ~aCancelled
  /\ \E j \in DOMAIN aJobs : aJobs[j].st = "done" /\ aJobs[j].rt > 0
  /\ stats.errorCount >= 1
LookupRequestsOut == {j \in DOMAIN hJobs : hJobs[j].st \in {"request", "unsignalled"}}

DownloadRequestsOut == {j \in DOMAIN hDls : hDls[j] \in DownloadsPending}

\* C36: while a page fetch of #downloadThread is in flight, no filename lookup and no
\* attachment download has a request out: the lookups of a page (line 230) and the
\* downloads of a message (line 259) are awaited before the next page is fetched, and
\* the only rejection that ends an await early, an AbortError, ends the handler.
FetchPhasesNeverOverlap ==
  hPc = "fetch" => LookupRequestsOut = {} /\ DownloadRequestsOut = {}

\* The second page is being fetched after lookups and downloads of the first page, one
\* of them over a request that had lost the signal, and the signal is raised.
FetchPhasesNeverOverlapWitness ==
  /\ hPc = "fetch"
  /\ hPage = 2
  /\ hCancelled
  /\ \E j \in DOMAIN hJobs : hJobs[j].st \in {"named", "unnamed", "failed"}
  /\ \E j \in DOMAIN hDls : hDls[j] = "done"

\* C37: no two downloads of a message that stream a body at the same time write to the
\* same "<destPath>.part" (and so rename into the same destPath), also when the message
\* links one attachment twice.
IndependentDownloadFiles ==
  \A j, k \in DOMAIN aJobs :
    (j # k /\ aJobs[j].st \in Streaming /\ aJobs[k].st \in Streaming)
      => aDests[j] # aDests[k]

\* C38: in a run with config.continue off, a page whose message file exists already is
\* crawled again: #createMessageFile writes the file anew with the header only, and when
\* the handler has ended every message file holds its header and each message of its
\* page once; after the last page this is so for every page of the thread.
RerunRecreatesTranscript ==
  /\ [](~tContinue /\ tPc \in {"done", "failed"} =>
          /\ \A p \in 1..Len(tLayout) : tFiles[p] \in {<<>>, FullFile(tLayout, p)}
          /\ tPc = "done" => tFiles = FullFiles(tLayout))
  /\ [][~tContinue /\ tPc = "create" /\ tPc' # "crashed" => tFiles'[tUrl] = <<Header>>]_vars

\* The thread, of two pages with messages, has been crawled twice with resume off.
RerunRecreatesTranscriptWitness ==
  /\ ~tContinue
  /\ tPc = "done"
  /\ tDispatches = 2
  /\ Len(tLayout) = 2
  /\ stats.processedThreadCount = 2
  /\ stats.processedMessageCount = 2 * TotalMessages(tLayout)
  /\ TotalMessages(tLayout) >= 2

\* C39: every attempt of a fetch ends: once a request of an attempt is out, the attempt
\* returns, fails or pauses for a retry, whatever redirects the server answers with, so
\* that the call ends.
AttemptAlwaysEnds == (qPc = "request") ~> (qPc # "request")

PageRequestsOut == IF hPc = "fetch" THEN 1 ELSE 0

\* C40: the page fetch and the filename lookups that have a request out are together at
\* most max(1, maxConcurrent), also on a page where several attachments lack a filename
\* (the downloads, not in flight during the lookups, are held to maxConcurrent by their
\* limiter).
RequestConcurrencyBounded ==
  PageRequestsOut + Cardinality(LookupRequestsOut) <= Max(1, LookupMaxConcurrent)

====
